---- MODULE Spec2Model ----
(***************************************************************************)
(* A model of uncharted-distil/distil-tile-transform (tile-tx).            *)
(*                                                                         *)
(*   SpecCatalog  createTileMap / insertSorted: the directory scan that    *)
(*                builds the per-location, time-ordered tile catalog.      *)
(*                                                                         *)
(* File names and date tokens are sequences of one-character strings, so   *)
(* that strings.Split and time.Parse are computed character by character.  *)
(***************************************************************************)
EXTENDS Integers, Sequences, FiniteSets, Bags, TLC

\* ------------------------------------------------------------------ bounds

\* Longest directory listing the catalog scan is run on.
MaxFiles == 3

\* Largest raster width and height loadGeoImage is called on.
MaxSize == 2

\* Most pixels in a band handed to a category Transform.
MaxPixels == 4

\* Most pixels in a band handed to MeanNDVI.Transform.
MaxBandLen == 2

\* Most items in a class array of the metadata document.
MaxClasses == 2

\* Most tiles in the tile array of the batch-based main.
MaxBatchTiles == 12

\* Most tiles in the flattened tile list handed to the worker pool.
MaxTiles == 2

\* The worker counts tried are 1..MaxWorkers and the default of the -workers flag.
MaxWorkers == 2

\* flag.Int("workers", 8, ...)
DefaultWorkers == 8

\* ------------------------------------------------------------- characters

Digits == {"0", "1", "2", "3", "4", "5", "6", "7", "8", "9"}

DigitVal(c) ==
    CASE c = "0" -> 0 [] c = "1" -> 1 [] c = "2" -> 2 [] c = "3" -> 3
      [] c = "4" -> 4 [] c = "5" -> 5 [] c = "6" -> 6 [] c = "7" -> 7
      [] c = "8" -> 8 [] c = "9" -> 9

DigitChar(n) ==
    CASE n = 0 -> "0" [] n = 1 -> "1" [] n = 2 -> "2" [] n = 3 -> "3"
      [] n = 4 -> "4" [] n = 5 -> "5" [] n = 6 -> "6" [] n = 7 -> "7"
      [] n = 8 -> "8" [] n = 9 -> "9"

\* n as two and as four decimal digits.
Digits2(n) == <<DigitChar(n \div 10), DigitChar(n % 10)>>

Digits4(n) == Digits2(n \div 100) \o Digits2(n % 100)

Range(s) == {s[i] : i \in DOMAIN s}

\* s[from..] (1-based), the empty sequence when from is past the end.
Tail_(s, from) == SubSeq(s, from, Len(s))

AllDigits(s) == \A i \in 1..Len(s) : s[i] \in Digits

RECURSIVE Atoi(_)
Atoi(s) == IF s = <<>> THEN 0
           ELSE 10 * Atoi(SubSeq(s, 1, Len(s) - 1)) + DigitVal(s[Len(s)])

\* strings.Split(name, "_"): the segments between the separators, in order.
RECURSIVE SplitFrom(_, _, _)
SplitFrom(s, i, cur) ==
    IF i > Len(s) THEN <<cur>>
    ELSE IF s[i] = "_" THEN <<cur>> \o SplitFrom(s, i + 1, <<>>)
    ELSE SplitFrom(s, i + 1, Append(cur, s[i]))

Split(s) == SplitFrom(s, 1, <<>>)

\* ------------------------------------------------------------- time.Parse

IsLeap(y) == (y % 4 = 0) /\ ((y % 100 # 0) \/ (y % 400 = 0))

DaysIn(m, y) ==
    IF m = 2 THEN (IF IsLeap(y) THEN 29 ELSE 28)
    ELSE IF m \in {4, 6, 9, 11} THEN 30 ELSE 31

\* Days from 1970-01-01 to the civil date y-m-d (proleptic Gregorian).
DaysFromCivil(y, m, d) ==
    LET yy  == IF m <= 2 THEN y - 1 ELSE y
        era == (IF yy >= 0 THEN yy ELSE yy - 399) \div 400
        yoe == yy - era * 400
        mp  == (m + 9) % 12
        doy == (153 * mp + 2) \div 5 + d - 1
        doe == yoe * 365 + yoe \div 4 - yoe \div 100 + doy
    IN  era * 146097 + doe - 719468

\* The hour field of the layout "20060102T030405" is "03": the zero-padded
\* hour of the 12-hour clock, which time.Parse accepts in 0..12 only.
HourInRange(h) == h >= 0 /\ h <= 12

\* The number of characters of a fractional second that time.Parse consumes
\* after the seconds field when the layout has none: "." and the digits
\* that follow it; 0 when the rest does not start with "." and a digit.
RECURSIVE DigitRun(_, _)
DigitRun(s, i) == IF i <= Len(s) /\ s[i] \in Digits THEN 1 + DigitRun(s, i + 1) ELSE 0

FractionLen(rest) ==
    IF Len(rest) >= 2 /\ rest[1] = "." /\ rest[2] \in Digits
    THEN 1 + DigitRun(rest, 2) ELSE 0

\* time.Parse("20060102T030405", s): [ok, unix].
ParseDate(s) ==
    LET bad == [ok |-> FALSE, unix |-> 0] IN
    IF Len(s) < 15 THEN bad
    ELSE IF ~AllDigits(SubSeq(s, 1, 8)) \/ s[9] # "T" \/ ~AllDigits(SubSeq(s, 10, 15))
    THEN bad
    ELSE
      LET year  == Atoi(SubSeq(s, 1, 4))
          month == Atoi(SubSeq(s, 5, 6))
          day   == Atoi(SubSeq(s, 7, 8))
          hour  == Atoi(SubSeq(s, 10, 11))
          min   == Atoi(SubSeq(s, 12, 13))
          sec   == Atoi(SubSeq(s, 14, 15))
          rest  == Tail_(s, 16)
          extra == Tail_(rest, FractionLen(rest) + 1)
      IN  IF month < 1 \/ month > 12 THEN bad
          ELSE IF ~HourInRange(hour) THEN bad
          ELSE IF min >= 60 \/ sec >= 60 THEN bad
          ELSE IF extra # <<>> THEN bad
          ELSE IF day < 1 \/ day > DaysIn(month, year) THEN bad
          ELSE [ok   |-> TRUE,
                unix |-> DaysFromCivil(year, month, day) * 86400
                           + hour * 3600 + min * 60 + sec]

\* ------------------------------------------------------------ time.Format

FloorDiv(a, b) == IF a >= 0 THEN a \div b ELSE -((-a + b - 1) \div b)

\* The civil date <<y, m, d>> of the day `z` days after 1970-01-01.
CivilFromDays(z) ==
    LET zz  == z + 719468
        era == FloorDiv(zz, 146097)
        doe == zz - era * 146097
        yoe == (doe - doe \div 1460 + doe \div 36524 - doe \div 146096) \div 365
        doy == doe - (365 * yoe + yoe \div 4 - yoe \div 100)
        mp  == (5 * doy + 2) \div 153
        d   == doy - (153 * mp + 2) \div 5 + 1
        m   == IF mp < 10 THEN mp + 3 ELSE mp - 9
        y   == yoe + era * 400 + (IF m <= 2 THEN 1 ELSE 0)
    IN  <<y, m, d>>

\* time.Unix(ts, 0).Format("2006-01-02"): the date of the instant in the
\* process's local time zone, `offset` seconds east of UTC.
FormatDate(ts, offset) ==
    LET c == CivilFromDays(FloorDiv(ts + offset, 86400)) IN
    Digits4(c[1]) \o <<"-">> \o Digits2(c[2]) \o <<"-">> \o Digits2(c[3])

\* ------------------------------------------------------- float64 values

\* A float64 is kept as the exact fraction it denotes, <<n, d>> in lowest terms
\* with d > 0; d = 0 holds the IEEE specials: <<1, 0>> +Inf, <<-1, 0>> -Inf,
\* <<0, 0>> NaN.
RECURSIVE Gcd(_, _)
Gcd(a, b) == IF b = 0 THEN a ELSE Gcd(b, a % b)

Abs(a) == IF a < 0 THEN -a ELSE a

Sign(a) == IF a > 0 THEN 1 ELSE IF a < 0 THEN -1 ELSE 0

Norm(n, d) ==
    IF d = 0 THEN <<Sign(n), 0>>
    ELSE LET g == Gcd(Abs(n), Abs(d))
             s == IF d < 0 THEN -1 ELSE 1
         IN  <<(s * n) \div g, (s * d) \div g>>

NaN == <<0, 0>>

F(n) == <<n, 1>>

IsNaN(a) == a = NaN

\* a + b
FAdd(a, b) ==
    IF IsNaN(a) \/ IsNaN(b) THEN NaN
    ELSE IF a[2] = 0 /\ b[2] = 0 THEN (IF a[1] = b[1] THEN a ELSE NaN)
    ELSE IF a[2] = 0 THEN a
    ELSE IF b[2] = 0 THEN b
    ELSE Norm(a[1] * b[2] + b[1] * a[2], a[2] * b[2])

\* a / b
FDiv(a, b) ==
    IF IsNaN(a) \/ IsNaN(b) THEN NaN
    ELSE IF a[2] = 0 /\ b[2] = 0 THEN NaN
    ELSE IF b[2] = 0 THEN F(0)
    ELSE IF a[2] = 0 THEN <<a[1] * (IF b[1] < 0 THEN -1 ELSE 1), 0>>
    ELSE Norm(a[1] * b[2], a[2] * b[1])

\* a > b (false when either is NaN)
FGt(a, b) ==
    IF IsNaN(a) \/ IsNaN(b) THEN FALSE
    ELSE IF a[2] = 0 /\ b[2] = 0 THEN a[1] > b[1]
    ELSE IF a[2] = 0 THEN a[1] > 0
    ELSE IF b[2] = 0 THEN b[1] < 0
    ELSE a[1] * b[2] > b[1] * a[2]

\* math.Max(a, b): NaN when either is NaN.
FMax(a, b) == IF IsNaN(a) \/ IsNaN(b) THEN NaN ELSE IF FGt(b, a) THEN b ELSE a

\* int(a), int32(a) of a finite float64 within the integer's range: the
\* fraction is dropped, towards zero.
Trunc(a) == IF a[1] >= 0 THEN a[1] \div a[2] ELSE -((-a[1]) \div a[2])

\* ----------------------------------------------------------- loadGeoImage

NilErr == "nil"

NilImage == [nil |-> TRUE]

SupportedTypes == {"UInt16", "Byte", "Float32", "Float64"}

\* errors.Wrap / errors.Wrapf: nil when the error wrapped is nil.
Wrapf(err, msg) == IF err = NilErr THEN NilErr ELSE msg

\* tx is the GDAL geotransform, tx[0..5] of the source kept as tx[1..6].
GeoBoundsOf(xSize, ySize, tx) ==
    [MinLon |-> tx[1],
     MinLat |-> tx[4] + xSize * tx[5] + ySize * tx[6],
     MaxLon |-> tx[1] + xSize * tx[2] + ySize * tx[3],
     MaxLat |-> tx[4]]

\* GeoBounds.String: the four corners, lon then lat.
BoundsString(g) ==
    <<g.MinLon, g.MinLat, g.MaxLon, g.MinLat, g.MaxLon, g.MaxLat, g.MinLon, g.MaxLat>>

\* readByte / readUint16 / readFloat32 / readFloat64: [data, err, closes].
\* Every sample is converted with float64(v); file.pixels holds the samples as
\* the float64 values they convert to. The dataset is closed on both paths.
ReadBand(file) ==
    IF ~file.ioOk
    THEN [data |-> <<>>, err |-> "io", closes |-> 1]
    ELSE [data |-> file.pixels, err |-> NilErr, closes |-> 1]

\* loadGeoImage(filePath) on the file GDAL finds there:
\* [img, err, opened, closes]. closes counts the calls of Dataset.Close.
loadGeoImage(file) ==
    IF ~file.openOk
    THEN [img |-> NilImage, err |-> Wrapf("open", "band file not loaded"),
          opened |-> FALSE, closes |-> 0]
    ELSE
      LET bounds == GeoBoundsOf(file.xSize, file.ySize, file.tx)
          err0   == NilErr     \* err after gdal.Open succeeded
      IN  IF file.dataType \in SupportedTypes
          THEN LET r == ReadBand(file) IN
               IF r.err # NilErr
               THEN [img |-> NilImage, err |-> Wrapf(r.err, "failed to load band data"),
                     opened |-> TRUE, closes |-> r.closes]
               ELSE [img |-> [nil |-> FALSE, Data |-> r.data, XSize |-> file.xSize,
                             YSize |-> file.ySize, Bounds |-> bounds],
                     err |-> NilErr, opened |-> TRUE, closes |-> r.closes]
          ELSE [img |-> NilImage, err |-> Wrapf(err0, "unhandled GDAL band type"),
                opened |-> TRUE, closes |-> 0]

\* ------------------------------------------------------------ operations

OperationCategoryCountsRaw == "category_counts_raw"

OperationCategoryCountsPercentage == "category_counts_percentage"

OperationCategoryBinary == "category_binary"

OperationMeanNDVI == "mean_ndvi"

OperationMean == "mean"

CategoryOperations ==
    {OperationCategoryCountsRaw, OperationCategoryCountsPercentage, OperationCategoryBinary}

band8 == "B08"

band4 == "B04"

discreteLandCoverBand == "discrete_classification"

\* The value -> index map NewCategoryCounts builds: a later descriptor with the
\* same value overwrites an earlier one.
IndexMapOf(categories) ==
    [v \in {categories[i].Value : i \in DOMAIN categories} |->
        (CHOOSE i \in DOMAIN categories :
            /\ categories[i].Value = v
            /\ \A j \in DOMAIN categories : categories[j].Value = v => j <= i) - 1]

\* c.IndexMap[value]: the zero value, index 0, for a value the map does not hold.
IndexOf(indexMap, value) == IF value \in DOMAIN indexMap THEN indexMap[value] ELSE 0

\* The loop of computeCounts with a pixel of no class passed over.
RECURSIVE CountPixelsSkipUnknown(_, _, _)
CountPixelsSkipUnknown(indexMap, data, counts) ==
    IF data = <<>> THEN counts
    ELSE IF Trunc(Head(data)) \notin DOMAIN indexMap
    THEN CountPixelsSkipUnknown(indexMap, Tail(data), counts)
    ELSE LET index == indexMap[Trunc(Head(data))] IN
         CountPixelsSkipUnknown(indexMap, Tail(data),
                                [counts EXCEPT ![index + 1] = counts[index + 1] + 1])

\* The loop of computeCounts over the pixels: categoryCounts[index]++.
RECURSIVE CountPixels(_, _, _)
CountPixels(indexMap, data, counts) ==
    IF data = <<>> THEN counts
    ELSE LET index == IndexOf(indexMap, Trunc(Head(data))) IN
         CountPixels(indexMap, Tail(data),
                     [counts EXCEPT ![index + 1] = counts[index + 1] + 1])

\* computeCounts(c, tileData): [values, err, panic]. Reading tileData[0].Data
\* through a nil *GeoImage is a nil dereference.
computeCounts(c, tileData) ==
    IF Len(c.Categories) = 0
    THEN [values |-> <<>>, err |-> "labels unspecified", panic |-> FALSE]
    ELSE IF tileData[1].nil
    THEN [values |-> <<>>, err |-> NilErr, panic |-> TRUE]
    ELSE LET counts == CountPixels(c.IndexMap, tileData[1].Data,
                                   [i \in 1..Len(c.Categories) |-> 0])
         IN  [values |-> [i \in 1..Len(counts) |-> F(counts[i])],
              err |-> NilErr, panic |-> FALSE]

CategoryCountsRawTransform(c, tileData) == computeCounts(c, tileData)

CategoryCountsPercentageTransform(c, tileData) ==
    LET r == computeCounts(c, tileData) IN
    IF r.err # NilErr \/ r.panic THEN r
    ELSE LET totalPixels == F(tileData[1].XSize * tileData[1].YSize) IN
         [r EXCEPT !.values = [i \in 1..Len(r.values) |-> FDiv(r.values[i], totalPixels)]]

CategoryBinaryTransform(c, tileData) ==
    LET r == computeCounts(c, tileData) IN
    IF r.err # NilErr \/ r.panic THEN r
    ELSE [r EXCEPT !.values = [i \in 1..Len(r.values) |->
                                   IF FGt(r.values[i], F(0)) THEN F(1) ELSE F(0)]]

\* The NDVI ratio of one pixel pair, clamped at 0: the two float64 values are
\* tested against 0 as they are and converted with int32() for the ratio.
PixelNDVI(value0, value1) ==
    IF value0 # F(0) \/ value1 # F(0)
    THEN FMax(F(0), FDiv(F(Trunc(value0) - Trunc(value1)), F(Trunc(value0) + Trunc(value1))))
    ELSE F(0)

RECURSIVE SumNDVI(_, _, _)
SumNDVI(image0, image1, i) ==
    IF i > Len(image0) THEN F(0)
    ELSE FAdd(PixelNDVI(image0[i], image1[i]), SumNDVI(image0, image1, i + 1))

\* MeanNDVI.Transform: image1[i] past the end of image1 is an index panic.
MeanNDVITransform(tileData) ==
    IF tileData[1].nil \/ tileData[2].nil \/ Len(tileData[2].Data) < Len(tileData[1].Data)
    THEN [values |-> <<>>, err |-> NilErr, panic |-> TRUE]
    ELSE LET image0 == tileData[1].Data
             image1 == tileData[2].Data
         IN  [values |-> <<FDiv(SumNDVI(image0, image1, 1), F(Len(image0)))>>,
              err |-> NilErr, panic |-> FALSE]

RECURSIVE SumData(_)
SumData(data) == IF data = <<>> THEN F(0) ELSE FAdd(Head(data), SumData(Tail(data)))

MeanTransform(tileData) ==
    IF tileData[1].nil
    THEN [values |-> <<>>, err |-> NilErr, panic |-> TRUE]
    ELSE [values |-> <<FDiv(SumData(tileData[1].Data), F(Len(tileData[1].Data)))>>,
          err |-> NilErr, panic |-> FALSE]

\* tileAnalytic.Transform(images), dispatched on the operation selected.
Transform(a, tileData) ==
    CASE a.op = OperationMeanNDVI -> MeanNDVITransform(tileData)
      [] a.op = OperationMean -> MeanTransform(tileData)
      [] a.op = OperationCategoryCountsRaw -> CategoryCountsRawTransform(a, tileData)
      [] a.op = OperationCategoryCountsPercentage -> CategoryCountsPercentageTransform(a, tileData)
      [] a.op = OperationCategoryBinary -> CategoryBinaryTransform(a, tileData)

\* The bands Setup loads for a tile, in the order it loads them.
RequiredBands(a) ==
    CASE a.op = OperationMeanNDVI -> <<band8, band4>>
      [] a.op = OperationMean -> <<a.ColumnName>>
      [] OTHER -> <<discreteLandCoverBand>>

\* tileAnalytic.Setup(inputDir, &tile) on the band files of the tile:
\* [images, err, exit]. Bands are loaded in order; when one fails to load, Setup
\* logs the error and calls os.Exit(1).
RECURSIVE LoadBands(_, _, _)
LoadBands(bandFiles, bands, i) ==
    IF i > Len(bands) THEN [images |-> <<>>, err |-> NilErr, exit |-> FALSE]
    ELSE LET r == loadGeoImage(bandFiles[bands[i]]) IN
         IF r.err # NilErr
         THEN [images |-> <<>>, err |-> r.err, exit |-> TRUE]
         ELSE LET rest == LoadBands(bandFiles, bands, i + 1) IN
              IF rest.err # NilErr THEN rest
              ELSE [rest EXCEPT !.images = <<r.img>> \o rest.images]

Setup(a, bandFiles) == LoadBands(bandFiles, RequiredBands(a), 1)

ValueNames(a) ==
    CASE a.op = OperationMeanNDVI -> <<"mean_ndvi">>
      [] a.op = OperationMean -> <<a.ColumnName>>
      [] OTHER -> [i \in 1..Len(a.Categories) |-> a.Categories[i].Label]

\* --- the metadata document and the construction of the operations

\* A JSON value as gjson reads it: a number or a string.
JNum(n) == [t |-> "number", n |-> n, s |-> ""]

JStr(str) == [t |-> "string", n |-> 0, s |-> str]

\* A property of the document as gjson.Get finds it: absent, a value that is
\* no array, or an array of items.
Absent == [kind |-> "absent", items |-> <<>>]

Scalar == [kind |-> "scalar", items |-> <<>>]

JArray(items) == [kind |-> "array", items |-> items]

\* Result.Int(): the number; 0 for a string that is no number.
ResultInt(item) == IF item.t = "number" THEN item.n ELSE 0

\* uint16(n)
Uint16(n) == n % 65536

\* getCategoryValues: [values, err].
getCategoryValues(metadata) ==
    LET result == metadata.classValues IN
    IF result.kind # "array"
    THEN [values |-> <<>>, err |-> "failed to find array in metadata"]
    ELSE [values |-> [i \in DOMAIN result.items |-> Uint16(ResultInt(result.items[i]))],
          err |-> NilErr]

\* getCategoryNames: [names, err]. Result.String() of a string item is the
\* string.
getCategoryNames(metadata) ==
    LET result == metadata.classNames IN
    IF result.kind # "array"
    THEN [names |-> <<>>, err |-> "failed to find array in metadata"]
    ELSE [names |-> [i \in DOMAIN result.items |-> result.items[i].s], err |-> NilErr]

NoAnalytic == [op |-> "none"]

\* NewCategoryCounts and its wrappers NewCategoryCountsRaw,
\* NewCategoryCountsPercentage, NewCategoryBinary: [analytic, err, panic].
\* labels[idx] past the end of labels is an index panic.
NewCategoryCounts(op, metadata) ==
    LET l == getCategoryNames(metadata)
        v == getCategoryValues(metadata)
    IN  IF l.err # NilErr THEN [analytic |-> NoAnalytic, err |-> l.err, panic |-> FALSE]
        ELSE IF v.err # NilErr THEN [analytic |-> NoAnalytic, err |-> v.err, panic |-> FALSE]
        ELSE IF Len(l.names) < Len(v.values)
        THEN [analytic |-> NoAnalytic, err |-> NilErr, panic |-> TRUE]
        ELSE LET categories == [idx \in DOMAIN v.values |->
                                   [Value |-> v.values[idx], Label |-> l.names[idx]]]
             IN  [analytic |-> [op |-> op, Categories |-> categories,
                                IndexMap |-> IndexMapOf(categories)],
                  err |-> NilErr, panic |-> FALSE]

\* NewMean: the band id of the document, "" when it has none.
NewMean(metadata) ==
    IF metadata.bandId = ""
    THEN [analytic |-> NoAnalytic, err |-> "failed to find band ID in metadata", panic |-> FALSE]
    ELSE [analytic |-> [op |-> OperationMean, ColumnName |-> metadata.bandId],
          err |-> NilErr, panic |-> FALSE]

\* CreateTileAnalytic that fails on a name that is none of the five.
CreateTileAnalyticStrict(metadata, operation) ==
    IF operation \in CategoryOperations THEN NewCategoryCounts(operation, metadata)
    ELSE IF operation = OperationMeanNDVI
    THEN [analytic |-> [op |-> OperationMeanNDVI], err |-> NilErr, panic |-> FALSE]
    ELSE IF operation = OperationMean THEN NewMean(metadata)
    ELSE [analytic |-> NoAnalytic, err |-> "unrecognized operation", panic |-> FALSE]

\* CreateTileAnalytic(metadata, operation): [analytic, err, panic].
CreateTileAnalytic(metadata, operation) ==
    IF operation \in CategoryOperations THEN NewCategoryCounts(operation, metadata)
    ELSE IF operation = OperationMeanNDVI
    THEN [analytic |-> [op |-> OperationMeanNDVI], err |-> NilErr, panic |-> FALSE]
    ELSE IF operation = OperationMean THEN NewMean(metadata)
    ELSE [analytic |-> [op |-> OperationMeanNDVI], err |-> NilErr, panic |-> FALSE]

\* ------------------------------------------------------------ the catalog

metadataFileName == <<"m", "e", "t", "a", "d", "a", "t", "a", ".", "j", "s", "o", "n">>

\* fmt.Sprintf("%s_%s", id, dateString)
TileKey(id, dateString) == id \o <<"_">> \o dateString

\* sort.Search(n, f): the least index in [0, n) for which f holds, by bisection
\* (n when there is none); f is tiles[h].Timestamp > ts, indexes are 0-based.
RECURSIVE SearchFrom(_, _, _, _)
SearchFrom(tiles, ts, i, j) ==
    IF i < j
    THEN LET h == (i + j) \div 2 IN
         IF ~(tiles[h + 1].Timestamp > ts)
         THEN SearchFrom(tiles, ts, h + 1, j)
         ELSE SearchFrom(tiles, ts, i, h)
    ELSE i

\* sort.Search with tiles[h].Timestamp >= ts for f.
RECURSIVE SearchFromEqual(_, _, _, _)
SearchFromEqual(tiles, ts, i, j) ==
    IF i < j
    THEN LET h == (i + j) \div 2 IN
         IF ~(tiles[h + 1].Timestamp >= ts)
         THEN SearchFromEqual(tiles, ts, h + 1, j)
         ELSE SearchFromEqual(tiles, ts, i, h)
    ELSE i

\* insertSorted with the tile put before the tiles of its own timestamp.
insertSortedBeforeEqual(tiles, t) ==
    LET index == SearchFromEqual(tiles, t.Timestamp, 0, Len(tiles)) IN
    SubSeq(tiles, 1, index) \o <<t>> \o SubSeq(tiles, index + 1, Len(tiles))

\* insertSorted without the search: the tile is put at the end.
insertSortedAtEnd(tiles, t) == Append(tiles, t)

\* append an empty tile, shift tiles[index:] right by one, store t at index.
insertSorted(tiles, t) ==
    LET index == SearchFrom(tiles, t.Timestamp, 0, Len(tiles)) IN
    SubSeq(tiles, 1, index) \o <<t>> \o SubSeq(tiles, index + 1, Len(tiles))

MapGet(m, k) == IF k \in DOMAIN m THEN m[k] ELSE <<>>

MapPut(m, k, v) == [x \in DOMAIN m \cup {k} |-> IF x = k THEN v ELSE m[x]]

EmptyMap == [x \in {} |-> <<>>]

VARIABLES
    filePaths,     \* the directory listing ioutil.ReadDir returns
    readDirOk,     \* whether the directory can be read
    catPc,         \* "start", "scan", "done" (tileMap, nil), "error" (nil, err)
    fileIdx,       \* the entries of filePaths scanned so far
    tileMap,       \* id -> tiles of that location
    parsedTiles,   \* the id_date keys seen
    lastOutcome    \* what the scan did with the entry it scanned last

catVars == <<filePaths, readDirOk, catPc, fileIdx, tileMap, parsedTiles, lastOutcome>>

VARIABLES
    analytic,          \* the tile analytic CreateTileAnalytic returned
    tileArray,         \* the flattened tile map
    dir,               \* tile -> the band files the input directory holds for it
    zone,              \* the local time zone, seconds east of UTC
    workers,           \* the worker count handed to processTiles
    mainPc,            \* processTiles: "idle", "start", "send", "collect", "returned"
    sendIdx,           \* tiles of tileArray sent on the tiles channel so far
    tiles,             \* the buffered tiles channel
    tilesClosed,
    results,           \* the buffered results channel
    resultsClosed,
    wg,                \* the WaitGroup counter
    pool,              \* the tileWorker goroutines: the bag of their local states
    rows,              \* the rows the collector has gathered
    exited,            \* "no", or how the process ended: "exit" (os.Exit(1)), "panic: ..."
    received           \* the bag of tiles received from the tiles channel so far

poolVars == <<analytic, tileArray, dir, zone, workers, mainPc, sendIdx, tiles, tilesClosed,
              results, resultsClosed, wg, pool, rows, exited, received>>

VARIABLES
    geoFile,    \* the raster file loadGeoImage is called on, as GDAL sees it
    geoResult,  \* what loadGeoImage returned
    geoPc       \* "idle", "call", "done"

geoVars == <<geoFile, geoResult, geoPc>>

VARIABLES
    cntAnalytic,  \* a category operation
    cntImage,     \* the image its Transform is called on
    cntResult,    \* what Transform returned
    cntPc         \* "idle", "call", "done"

cntVars == <<cntAnalytic, cntImage, cntResult, cntPc>>

VARIABLES
    ndviImages,  \* the two images MeanNDVI.Transform is called on: B08, B04
    ndviResult,  \* what it returned
    ndviPc       \* "idle", "call", "done"

ndviVars == <<ndviImages, ndviResult, ndviPc>>

VARIABLES
    newMetadata,   \* the metadata document CreateTileAnalytic is called on
    newOperation,  \* the operation name it is called with
    newResult,     \* what it returned
    newPc          \* "idle", "call", "done"

newVars == <<newMetadata, newOperation, newResult, newPc>>

\* CreateTileAnalytic is not being called.
NewIdle == newMetadata = <<>> /\ newOperation = "" /\ newResult = <<>> /\ newPc = "idle"

VARIABLES
    parseToken,   \* the date token time.Parse is called on
    parseResult,  \* what it returned: [ok, unix]
    parsePc       \* "idle", "call", "done"

parseVars == <<parseToken, parseResult, parsePc>>

\* time.Parse is not being called.
ParseIdle == parseToken = <<>> /\ parseResult = <<>> /\ parsePc = "idle"

VARIABLES
    batchTiles,    \* len(tileArray) in the batch-based main
    batchWorkers,  \* workers
    batchSize,     \* len(tileArray) / workers
    batchIdx,      \* i of the loop that sends the batches
    tileBatches,   \* the slices sent on tileBatches, each <<start, end>>
    batchPc        \* "idle", "start", "send", "closed", or "panic: ..."

batchVars == <<batchTiles, batchWorkers, batchSize, batchIdx, tileBatches, batchPc>>

\* The batch-based main is not running.
BatchIdle ==
    /\ batchTiles = 0 /\ batchWorkers = 0 /\ batchSize = 0 /\ batchIdx = 0
    /\ tileBatches = <<>> /\ batchPc = "idle"

VARIABLES
    runPc,         \* main: "idle", "main", "tiles" (in processTiles), "written"
    runMetadata,   \* the document in the metadata file
    runOperation,  \* the -operation flag
    output         \* the rows written to the CSV file, the header first

runVars == <<runPc, runMetadata, runOperation, output>>

\* main is not running.
RunIdle == runPc = "idle" /\ runMetadata = <<>> /\ runOperation = "" /\ output = <<>>

VARIABLES
    bmAnalytic,    \* the batch-based main: tileAnalytic
    bmArray,       \* tileArray
    bmDir,         \* the band files of each tile under inputDir
    bmZone,        \* the local time zone, seconds east of UTC
    bmSize,        \* batchSize
    bmIdx,         \* i of the loop main is in
    bmBatches,     \* the batches waiting on tileBatches
    bmClosed,      \* tileBatches is closed
    bmPool,        \* the tileWorker goroutines, a bag of their local states
    bmRows,        \* rows, as main collects them
    bmOutput,      \* the rows written to the CSV file after the header
    bmPc           \* main: "idle", "start", "send", "collect", "write", "done",
                   \* "exit" or "panic: ..."

bmVars == <<bmAnalytic, bmArray, bmDir, bmZone, bmSize, bmIdx, bmBatches, bmClosed,
            bmPool, bmRows, bmOutput, bmPc>>

\* The batch-based main is not processing tiles.
BmIdle ==
    /\ bmAnalytic = [op |-> OperationMeanNDVI] /\ bmArray = <<>> /\ bmDir = <<>>
    /\ bmZone = 0 /\ bmSize = 0 /\ bmIdx = 0 /\ bmBatches = <<>> /\ bmClosed = FALSE
    /\ bmPool = EmptyBag /\ bmRows = <<>> /\ bmOutput = <<>> /\ bmPc = "idle"

VARIABLES
    insTiles,      \* insertSorted: the tiles argument
    insTile,       \* the tile t to insert
    insResult,     \* the slice returned
    insPc          \* "idle", "call", "done"

insVars == <<insTiles, insTile, insResult, insPc>>

\* insertSorted is not being called on its own.
InsIdle == insTiles = <<>> /\ insTile = <<>> /\ insResult = <<>> /\ insPc = "idle"

vars == <<catVars, poolVars, geoVars, cntVars, ndviVars, newVars, parseVars, batchVars, runVars, bmVars, insVars>>

nonPoolVars == <<catVars, geoVars, cntVars, ndviVars, newVars, parseVars, batchVars, runVars, bmVars, insVars>>

nonCatVars == <<poolVars, geoVars, cntVars, ndviVars, newVars, parseVars, batchVars, runVars, bmVars, insVars>>

nonGeoVars == <<catVars, poolVars, cntVars, ndviVars, newVars, parseVars, batchVars, runVars, bmVars, insVars>>

nonCntVars == <<catVars, poolVars, geoVars, ndviVars, newVars, parseVars, batchVars, runVars, bmVars, insVars>>

nonNdviVars == <<catVars, poolVars, geoVars, cntVars, newVars, parseVars, batchVars, runVars, bmVars, insVars>>

nonNewVars == <<catVars, poolVars, geoVars, cntVars, ndviVars, parseVars, batchVars, runVars, bmVars, insVars>>

nonParseVars == <<catVars, poolVars, geoVars, cntVars, ndviVars, newVars, batchVars, runVars, bmVars, insVars>>

nonBatchVars == <<catVars, poolVars, geoVars, cntVars, ndviVars, newVars, parseVars, runVars, bmVars, insVars>>

nonRunVars == <<catVars, poolVars, geoVars, cntVars, ndviVars, newVars, parseVars, batchVars, bmVars, insVars>>

nonBmVars == <<catVars, poolVars, geoVars, cntVars, ndviVars, newVars, parseVars, batchVars, runVars, insVars>>

nonInsVars == <<catVars, poolVars, geoVars, cntVars, ndviVars, newVars, parseVars, batchVars, runVars, bmVars>>

\* The catalog scan is not running.
CatIdle ==
    /\ filePaths = <<>> /\ readDirOk = TRUE /\ catPc = "idle" /\ fileIdx = 0
    /\ tileMap = EmptyMap /\ parsedTiles = {} /\ lastOutcome = "none"

\* loadGeoImage is not being called.
GeoIdle == geoFile = <<>> /\ geoResult = <<>> /\ geoPc = "idle"

\* No Transform is being called.
CntIdle == cntAnalytic = <<>> /\ cntImage = <<>> /\ cntResult = <<>> /\ cntPc = "idle"

\* MeanNDVI.Transform is not being called.
NdviIdle == ndviImages = <<>> /\ ndviResult = <<>> /\ ndviPc = "idle"

\* processTiles is not running.
PoolIdle ==
    /\ analytic = [op |-> OperationMeanNDVI] /\ tileArray = <<>> /\ dir = <<>>
    /\ zone = 0 /\ workers = 0 /\ mainPc = "idle" /\ sendIdx = 0
    /\ tiles = <<>> /\ tilesClosed = FALSE /\ results = <<>> /\ resultsClosed = FALSE
    /\ wg = 0 /\ pool = EmptyBag /\ rows = <<>> /\ exited = "no" /\ received = EmptyBag

\* --- the directory listings the scan is run on

Loc(a, b) == <<a, b>>

DateToken(y, m, d, hh, mm, ss) ==
    Digits4(y) \o Digits2(m) \o Digits2(d) \o <<"T">> \o Digits2(hh) \o Digits2(mm) \o Digits2(ss)

BandB08 == <<"B", "0", "8", ".", "t", "i", "f">>

BandB04 == <<"B", "0", "4", ".", "t", "i", "f">>

FileName(id, token, band) == id \o <<"_">> \o token \o <<"_">> \o band

FileNames ==
    { FileName(Loc("A", "1"), DateToken(2020, 1, 1, 0, 0, 0), BandB08),
      FileName(Loc("A", "1"), DateToken(2020, 1, 1, 0, 0, 0), BandB04),
      FileName(Loc("A", "1"), DateToken(2019, 12, 31, 12, 0, 0), BandB08),
      FileName(Loc("B", "2"), DateToken(2020, 1, 1, 0, 0, 0), BandB08),
      FileName(Loc("A", "1"), DateToken(2020, 1, 1, 15, 0, 0), BandB08),
      FileName(Loc("A", "1"), DateToken(2020, 1, 1, 0, 0, 0) \o <<".", "5">>, BandB08),
      FileName(Loc("A", "1"), DateToken(2020, 2, 30, 0, 0, 0), BandB08),
      Loc("A", "1") \o <<"_">> \o DateToken(2018, 6, 1, 1, 2, 3),
      <<"R", "E", "A", "D", "M", "E">>,
      metadataFileName }

\* A directory holds no name twice.
Listings ==
    UNION { { s \in [1..n -> FileNames] : \A i, j \in 1..n : i # j => s[i] # s[j] }
            : n \in 0..MaxFiles }

CatInit ==
    /\ filePaths \in Listings
    /\ readDirOk \in BOOLEAN
    /\ catPc = "start"
    /\ fileIdx = 0
    /\ tileMap = EmptyMap
    /\ parsedTiles = {}
    /\ lastOutcome = "none"
    /\ PoolIdle /\ GeoIdle /\ CntIdle /\ NdviIdle /\ NewIdle /\ ParseIdle /\ BatchIdle /\ RunIdle /\ BmIdle /\ InsIdle

\* ioutil.ReadDir fails: createTileMap returns (nil, err).
ReadDirFails ==
    /\ catPc = "start" /\ ~readDirOk
    /\ catPc' = "error"
    /\ UNCHANGED <<filePaths, readDirOk, fileIdx, tileMap, parsedTiles, lastOutcome>>
    /\ UNCHANGED nonCatVars

ReadDirSucceeds ==
    /\ catPc = "start" /\ readDirOk
    /\ catPc' = "scan"
    /\ UNCHANGED <<filePaths, readDirOk, fileIdx, tileMap, parsedTiles, lastOutcome>>
    /\ UNCHANGED nonCatVars

\* What one iteration of the scan loop does with the entry `name`.
ScanOutcome(name, seen) ==
    LET splitPath == Split(name) IN
    IF name = metadataFileName THEN "metadata"
    ELSE IF Len(splitPath) < 2 THEN "malformed"
    ELSE IF ~ParseDate(splitPath[2]).ok THEN "baddate"
    ELSE IF TileKey(splitPath[1], splitPath[2]) \in seen THEN "duplicate"
    ELSE "inserted"

\* ScanEntry that leaves the loop at an entry it cannot parse.
ScanEntryBreakOnBadName ==
    /\ catPc = "scan" /\ fileIdx < Len(filePaths)
    /\ LET name       == filePaths[fileIdx + 1]
           splitPath  == Split(name)
           id         == splitPath[1]
           dateString == splitPath[2]
           outcome    == ScanOutcome(name, parsedTiles)
       IN  /\ lastOutcome' = outcome
           /\ IF outcome = "inserted"
              THEN LET tileInfo == [GeoHash   |-> id,
                                    Date      |-> dateString,
                                    Timestamp |-> ParseDate(dateString).unix]
                   IN  /\ parsedTiles' = parsedTiles \cup {TileKey(id, dateString)}
                       /\ tileMap' = MapPut(tileMap, id, insertSorted(MapGet(tileMap, id), tileInfo))
              ELSE UNCHANGED <<tileMap, parsedTiles>>
           /\ fileIdx' = IF outcome \in {"malformed", "baddate"}
                         THEN Len(filePaths) ELSE fileIdx + 1
    /\ UNCHANGED <<filePaths, readDirOk, catPc>>
    /\ UNCHANGED nonCatVars

\* One iteration of the loop over filePaths.
ScanEntry ==
    /\ catPc = "scan" /\ fileIdx < Len(filePaths)
    /\ LET name       == filePaths[fileIdx + 1]
           splitPath  == Split(name)
           id         == splitPath[1]
           dateString == splitPath[2]
           outcome    == ScanOutcome(name, parsedTiles)
       IN  /\ lastOutcome' = outcome
           /\ IF outcome = "inserted"
              THEN LET tileInfo == [GeoHash   |-> id,
                                    Date      |-> dateString,
                                    Timestamp |-> ParseDate(dateString).unix]
                   IN  /\ parsedTiles' = parsedTiles \cup {TileKey(id, dateString)}
                       /\ tileMap' = MapPut(tileMap, id, insertSorted(MapGet(tileMap, id), tileInfo))
              ELSE UNCHANGED <<tileMap, parsedTiles>>
    /\ fileIdx' = fileIdx + 1
    /\ UNCHANGED <<filePaths, readDirOk, catPc>>
    /\ UNCHANGED nonCatVars

\* The loop ends: createTileMap returns (tileMap, nil).
ScanReturn ==
    /\ catPc = "scan" /\ fileIdx = Len(filePaths)
    /\ catPc' = "done"
    /\ UNCHANGED <<filePaths, readDirOk, fileIdx, tileMap, parsedTiles, lastOutcome>>
    /\ UNCHANGED nonCatVars

CatNext == ReadDirFails \/ ReadDirSucceeds \/ ScanEntry \/ ScanReturn

SpecCatalog == CatInit /\ [][CatNext]_vars



\* ---------------------------------------------- properties of the catalog

\* A date token of the form YYYYMMDDTHHMMSS naming a date and a time of day.
IsDateTimeToken(s) ==
    /\ Len(s) = 15
    /\ AllDigits(SubSeq(s, 1, 8)) /\ s[9] = "T" /\ AllDigits(SubSeq(s, 10, 15))
    /\ LET year  == Atoi(SubSeq(s, 1, 4))
           month == Atoi(SubSeq(s, 5, 6))
           day   == Atoi(SubSeq(s, 7, 8))
       IN  /\ month \in 1..12
           /\ day \in 1..DaysIn(month, year)
           /\ Atoi(SubSeq(s, 10, 11)) \in 0..23
           /\ Atoi(SubSeq(s, 12, 13)) \in 0..59
           /\ Atoi(SubSeq(s, 14, 15)) \in 0..59

\* A well-formed file name: not the metadata file, at least two segments, the
\* second a date-time token.
WellFormed(name) ==
    /\ name # metadataFileName
    /\ Len(Split(name)) >= 2
    /\ IsDateTimeToken(Split(name)[2])

PairOf(name) == <<Split(name)[1], Split(name)[2]>>

\* Every tile of the catalog, location after location.
CatalogTiles == UNION {Range(tileMap[id]) : id \in DOMAIN tileMap}

\* The number of tiles in the catalog.
CatalogSize == Cardinality({<<id, i>> \in (DOMAIN tileMap) \X (1..Len(filePaths)) :
                                i <= Len(tileMap[id])})

\* C3: the catalog createTileMap returns holds exactly one tile for each
\* (locationId, dateToken) pair of a well-formed file name of the listing, and
\* no other tile.
OneTilePerWellFormedPair ==
    catPc = "done" =>
        /\ {<<t.GeoHash, t.Date>> : t \in CatalogTiles}
             = {PairOf(filePaths[i]) : i \in {j \in DOMAIN filePaths : WellFormed(filePaths[j])}}
        /\ CatalogSize = Cardinality({<<t.GeoHash, t.Date>> : t \in CatalogTiles})

\* What the scan does: the catalog holds exactly one tile for each pair of a
\* name that time.Parse accepts, filed under its location.
OneTilePerParsedPair ==
    catPc = "done" =>
        /\ {<<t.GeoHash, t.Date>> : t \in CatalogTiles}
             = {PairOf(filePaths[i]) :
                  i \in {j \in DOMAIN filePaths :
                           /\ filePaths[j] # metadataFileName
                           /\ Len(Split(filePaths[j])) >= 2
                           /\ ParseDate(Split(filePaths[j])[2]).ok}}
        /\ CatalogSize = Cardinality({<<t.GeoHash, t.Date>> : t \in CatalogTiles})
        /\ \A id \in DOMAIN tileMap : \A i \in DOMAIN tileMap[id] : tileMap[id][i].GeoHash = id

\* C4: at every point of the scan, the tiles of every location are in
\* non-decreasing order of timestamp.
TilesSortedByTimestamp ==
    \A id \in DOMAIN tileMap :
        \A i, j \in DOMAIN tileMap[id] :
            i < j => tileMap[id][i].Timestamp <= tileMap[id][j].Timestamp

\* The entry scanned last was inserted before a tile already in its
\* location's sequence: the listing was not in time order.
InsertedBeforeLaterTile ==
    /\ lastOutcome = "inserted"
    /\ LET name == filePaths[fileIdx]
           seq  == tileMap[Split(name)[1]]
       IN  /\ Len(seq) >= 2
           /\ seq[Len(seq)].Date # Split(name)[2]
           /\ seq[Len(seq)].Timestamp > ParseDate(Split(name)[2]).unix

\* The entry scanned last: its name, and whether it is a name with a second
\* segment that is not the metadata file.
LastName == filePaths[fileIdx]

LastHasToken == LastName # metadataFileName /\ Len(Split(LastName)) >= 2

\* C16: an entry whose second segment is a date-time written as
\* YYYYMMDDTHHMMSS, with any hour 00 to 23, is parsed and its tile is in the
\* catalog once the entry is scanned, and an entry whose second segment is
\* not of that form is skipped.
DateTimeTokensAreCataloged ==
    (catPc = "scan" /\ fileIdx >= 1 /\ LastHasToken) =>
        LET id    == Split(LastName)[1]
            token == Split(LastName)[2]
        IN  /\ IsDateTimeToken(token) =>
                  /\ lastOutcome \in {"inserted", "duplicate"}
                  /\ \E t \in CatalogTiles : t.GeoHash = id /\ t.Date = token
            /\ ~IsDateTimeToken(token) => lastOutcome = "baddate"

\* An entry the scan does not skip: not the metadata file, two segments or
\* more, and a date token time.Parse accepts.
Parses(name) ==
    /\ name # metadataFileName
    /\ Len(Split(name)) >= 2
    /\ ParseDate(Split(name)[2]).ok

\* C17: once the directory listing succeeds createTileMap returns no error
\* and scans the listing to its end; the metadata file, a name of fewer than
\* two segments, a name whose date token does not parse and a duplicate key
\* change nothing in the catalog, and every entry scanned that is none of
\* these is in the catalog whatever came before it. The only error returned
\* is that of an unreadable directory.
ScanSkipsAndGoesOn ==
    /\ catPc = "error" <=> (~readDirOk /\ catPc # "start")
    /\ catPc = "done" => fileIdx = Len(filePaths)
    /\ catPc = "error" => (fileIdx = 0 /\ tileMap = EmptyMap)
    /\ \A i \in 1..fileIdx :
          Parses(filePaths[i]) <=>
             \E t \in CatalogTiles :
                 t.GeoHash = Split(filePaths[i])[1] /\ t.Date = Split(filePaths[i])[2]
    /\ CatalogSize = Cardinality(parsedTiles)

\* A scan ran to its end over a listing of three entries: a name of one
\* segment, then a name whose date token does not parse, then a name that
\* parses and is in the catalog.
CatalogedAfterBadEntries ==
    /\ catPc = "done" /\ Len(filePaths) = 3
    /\ Len(Split(filePaths[1])) < 2
    /\ Len(Split(filePaths[2])) >= 2 /\ ~ParseDate(Split(filePaths[2])[2]).ok
    /\ lastOutcome = "inserted"
    /\ \E t \in CatalogTiles : t.Date = Split(filePaths[3])[2]

\* ------------------------------------------------------- time.Parse, alone

\* Date tokens: every hour of the day, minutes and seconds at and past their
\* ends, days at and past the end of a month, with and without a fraction of
\* a second.
ParseTokens ==
    { DateToken(2020, m, d, hh, mm, ss) \o frac :
        m \in {2, 12}, d \in {1, 29, 30, 31}, hh \in 0..24, mm \in {0, 59, 60},
        ss \in {0, 59}, frac \in {<<>>, <<".", "5">>} }

ParseInit ==
    /\ parseToken \in ParseTokens
    /\ parseResult = <<>>
    /\ parsePc = "call"
    /\ CatIdle /\ PoolIdle /\ GeoIdle /\ CntIdle /\ NdviIdle /\ NewIdle /\ BatchIdle /\ RunIdle /\ BmIdle /\ InsIdle

ParseToken ==
    /\ parsePc = "call"
    /\ parseResult' = ParseDate(parseToken)
    /\ parsePc' = "done"
    /\ UNCHANGED parseToken
    /\ UNCHANGED nonParseVars

ParseNext == ParseToken

SpecParse == ParseInit /\ [][ParseNext]_vars

\* What time.Parse does with the layout 20060102T030405: it accepts a token
\* exactly when the token names a date and a time of day whose hour is 00 to
\* 12, with or without a fraction of a second after it.
ParsesHoursUpToTwelve ==
    parsePc = "done" =>
        (parseResult.ok <=>
            /\ IsDateTimeToken(SubSeq(parseToken, 1, 15))
            /\ Atoi(SubSeq(parseToken, 10, 11)) <= 12)

\* ----------------------------------------------------------- processTiles

\* --- the inputs the pool is run on

GeoTx == <<10, 1, 0, 50, 0, -1>>

GoodFile(type, x, y, pixels) ==
    [openOk |-> TRUE, dataType |-> type, ioOk |-> TRUE,
     xSize |-> x, ySize |-> y, tx |-> GeoTx, pixels |-> pixels]

MissingFile == [GoodFile("UInt16", 0, 0, <<>>) EXCEPT !.openOk = FALSE]

MeanBand == "B02"

BandNames == {band8, band4, discreteLandCoverBand, MeanBand}

\* The band files of a tile: every band decodes.
CompleteFiles ==
    [b \in BandNames |->
        CASE b = band8 -> GoodFile("UInt16", 2, 1, <<F(8), F(0)>>)
          [] b = band4 -> GoodFile("UInt16", 2, 1, <<F(2), F(0)>>)
          [] b = discreteLandCoverBand -> GoodFile("Byte", 2, 2, <<F(1), F(1), F(2), F(9)>>)
          [] OTHER -> GoodFile("Float32", 2, 1, <<F(3), F(5)>>)]

\* No band file of the tile opens.
NoFiles == [b \in BandNames |-> MissingFile]

\* Only the red band (B04) is missing.
NoBand4Files == [CompleteFiles EXCEPT ![band4] = MissingFile]

\* Every band file holds signed 16-bit samples.
Int16Files == [b \in BandNames |-> [CompleteFiles[b] EXCEPT !.dataType = "Int16"]]

TileFiles == {CompleteFiles, NoFiles, NoBand4Files, Int16Files}

WaterForest == <<[Value |-> 1, Label |-> "water"], [Value |-> 2, Label |-> "forest"]>>

CategoryAnalytic(op, categories) ==
    [op |-> op, Categories |-> categories, IndexMap |-> IndexMapOf(categories)]

\* The analytics CreateTileAnalytic can hand to processTiles; a metadata
\* document with empty class arrays gives a category operation without classes.
Analytics ==
    {[op |-> OperationMeanNDVI], [op |-> OperationMean, ColumnName |-> MeanBand]}
    \cup {CategoryAnalytic(op, WaterForest) : op \in CategoryOperations}
    \cup {CategoryAnalytic(OperationCategoryCountsRaw, <<>>)}

LocA == <<"A", "1">>

LocB == <<"B", "2">>

MkTile(id, day) ==
    LET dateString == DateToken(2020, 1, day, 0, 0, 0) IN
    [GeoHash |-> id, Date |-> dateString, Timestamp |-> ParseDate(dateString).unix]

\* A flattened catalog of n tiles: the tiles of one location in time order,
\* then those of the next.
TileArrayOf(n) ==
    LET na == (n + 1) \div 2 IN
    [k \in 1..n |-> IF k <= na THEN MkTile(LocA, k) ELSE MkTile(LocB, k - na)]

WorkerCounts == (1..MaxWorkers) \cup {DefaultWorkers}

Zones == {0}

NoTile == [GeoHash |-> <<>>, Date |-> <<>>, Timestamp |-> 0]

TileSet == {tileArray[k] : k \in DOMAIN tileArray}

PoolInit ==
    /\ analytic \in Analytics
    /\ \E n \in 0..MaxTiles : tileArray = TileArrayOf(n)
    /\ dir \in [TileSet -> TileFiles]
    /\ zone \in Zones
    /\ workers \in WorkerCounts
    /\ mainPc = "start"
    /\ sendIdx = 0
    /\ tiles = <<>> /\ tilesClosed = FALSE
    /\ results = <<>> /\ resultsClosed = FALSE
    /\ wg = 0
    /\ pool = EmptyBag
    /\ rows = <<>>
    /\ exited = "no"
    /\ received = EmptyBag
    /\ CatIdle /\ GeoIdle /\ CntIdle /\ NdviIdle /\ NewIdle /\ ParseIdle /\ BatchIdle /\ RunIdle /\ BmIdle /\ InsIdle

\* make(chan ..., len(tileArray)): the capacity of both channels.
ChanCap == Len(tileArray)

\* The process is alive.
Running == exited = "no"

poolInputs == <<analytic, tileArray, dir, zone, workers>>

\* The local state of a tileWorker entering its loop: where it is, the tile of
\* the current iteration, what Setup returned for it, the row about to be sent,
\* and its error counters; pulled and sent record how many tiles it has taken
\* from the tiles channel and how many rows it has put on results.
NewWorker ==
    [pc |-> "recv", tile |-> NoTile, images |-> <<>>, row |-> <<>>,
     setupErrCount |-> 0, lastSetupErr |-> NilErr,
     transformErrCount |-> 0, lastTransformErr |-> NilErr,
     pulled |-> 0, sent |-> 0]

\* StartWorkers with wg.Add(1) in place of wg.Add(workers).
StartWorkersAddOne ==
    /\ Running /\ mainPc = "start"
    /\ wg' = wg + 1
    /\ pool' = [w \in {NewWorker} |-> workers]
    /\ mainPc' = "send"
    /\ UNCHANGED <<poolInputs, sendIdx, tiles, tilesClosed, results, resultsClosed,
                   rows, exited, received>>
    /\ UNCHANGED nonPoolVars

\* wg.Add(workers) and the loop of go tileWorker(...).
StartWorkers ==
    /\ Running /\ mainPc = "start"
    /\ wg' = wg + workers
    /\ pool' = [w \in {NewWorker} |-> workers]
    /\ mainPc' = "send"
    /\ UNCHANGED <<poolInputs, sendIdx, tiles, tilesClosed, results, resultsClosed,
                   rows, exited, received>>
    /\ UNCHANGED nonPoolVars

\* tiles <- tile, blocking while the channel is full.
SendTile ==
    /\ Running /\ mainPc = "send" /\ sendIdx < Len(tileArray)
    /\ Len(tiles) < ChanCap
    /\ tiles' = Append(tiles, tileArray[sendIdx + 1])
    /\ sendIdx' = sendIdx + 1
    /\ UNCHANGED <<poolInputs, mainPc, tilesClosed, results, resultsClosed, wg,
                   pool, rows, exited, received>>
    /\ UNCHANGED nonPoolVars

\* close(tiles), then the goroutine that waits for the workers is started and
\* the collection loop is entered.
CloseTiles ==
    /\ Running /\ mainPc = "send" /\ sendIdx = Len(tileArray)
    /\ tilesClosed' = TRUE
    /\ mainPc' = "collect"
    /\ UNCHANGED <<poolInputs, sendIdx, tiles, results, resultsClosed, wg,
                   pool, rows, exited, received>>
    /\ UNCHANGED nonPoolVars

\* WaitAndClose without the wg.Wait(): results is closed at once.
WaitAndCloseNoWait ==
    /\ Running /\ mainPc = "collect" /\ ~resultsClosed
    /\ resultsClosed' = TRUE
    /\ UNCHANGED <<poolInputs, mainPc, sendIdx, tiles, tilesClosed, results, wg,
                   pool, rows, exited, received>>
    /\ UNCHANGED nonPoolVars

\* go func() { defer close(results); wg.Wait() }()
WaitAndClose ==
    /\ Running /\ mainPc = "collect" /\ ~resultsClosed
    /\ wg = 0
    /\ resultsClosed' = TRUE
    /\ UNCHANGED <<poolInputs, mainPc, sendIdx, tiles, tilesClosed, results, wg,
                   pool, rows, exited, received>>
    /\ UNCHANGED nonPoolVars

\* for r := range results { rows = append(rows, r) }
CollectRow ==
    /\ Running /\ mainPc = "collect" /\ results # <<>>
    /\ rows' = Append(rows, Head(results))
    /\ results' = Tail(results)
    /\ UNCHANGED <<poolInputs, mainPc, sendIdx, tiles, tilesClosed, resultsClosed, wg,
                   pool, exited, received>>
    /\ UNCHANGED nonPoolVars

\* CollectDone that takes an empty channel for a closed one.
CollectDoneWhenEmpty ==
    /\ Running /\ mainPc = "collect" /\ results = <<>>
    /\ mainPc' = "returned"
    /\ UNCHANGED <<poolInputs, sendIdx, tiles, tilesClosed, results, resultsClosed, wg,
                   pool, rows, exited, received>>
    /\ UNCHANGED nonPoolVars

\* The range over results ends on the closed, drained channel: return rows.
CollectDone ==
    /\ Running /\ mainPc = "collect" /\ results = <<>> /\ resultsClosed
    /\ mainPc' = "returned"
    /\ UNCHANGED <<poolInputs, sendIdx, tiles, tilesClosed, results, resultsClosed, wg,
                   pool, rows, exited, received>>
    /\ UNCHANGED nonPoolVars

\* --- tileWorker

\* Replace the worker whose state is w by one whose state is w2.
Become(w, w2) == (pool (-) SetToBag({w})) (+) SetToBag({w2})

\* for tile := range tiles: a tile is received.
RecvTile(w) ==
    /\ Running /\ w.pc = "recv" /\ tiles # <<>>
    /\ pool' = Become(w, [w EXCEPT !.pc = "setup", !.tile = Head(tiles),
                                    !.pulled = @ + 1])
    /\ tiles' = Tail(tiles)
    /\ received' = received (+) SetToBag({Head(tiles)})
    /\ UNCHANGED <<poolInputs, mainPc, sendIdx, tilesClosed, results, resultsClosed, wg,
                   rows, exited>>
    /\ UNCHANGED nonPoolVars

\* The range ends on the closed, drained channel: the error summary is logged
\* and wg.Done() is called.
WorkerDone(w) ==
    /\ Running /\ w.pc = "recv" /\ tiles = <<>> /\ tilesClosed
    /\ wg' = wg - 1
    /\ pool' = Become(w, [w EXCEPT !.pc = "done"])
    /\ UNCHANGED <<poolInputs, mainPc, sendIdx, tiles, tilesClosed, results, resultsClosed,
                   rows, exited, received>>
    /\ UNCHANGED nonPoolVars

\* images, err := tileAnalytic.Setup(inputDir, &tile)
DoSetup(w) ==
    /\ Running /\ w.pc = "setup"
    /\ LET r == Setup(analytic, dir[w.tile]) IN
       IF r.exit
       THEN /\ exited' = "exit"
            /\ UNCHANGED pool
       ELSE IF r.err # NilErr
       THEN /\ pool' = Become(w, [w EXCEPT !.pc = "recv",
                                           !.setupErrCount = @ + 1,
                                           !.lastSetupErr = r.err])
            /\ UNCHANGED exited
       ELSE /\ pool' = Become(w, [w EXCEPT !.pc = "transform", !.images = r.images])
            /\ UNCHANGED exited
    /\ UNCHANGED <<poolInputs, mainPc, sendIdx, tiles, tilesClosed, results, resultsClosed,
                   wg, rows, received>>
    /\ UNCHANGED nonPoolVars

\* strconv.FormatFloat(value, 'f', -1, 64): the shortest decimal text that
\* reads back as value, kept as the value it denotes.
FormatFloat(value) == [text |-> value]

\* RowOf without the bounds field.
RowOfNoBounds(t, imgs, values, offset) ==
    <<t.GeoHash, FormatDate(t.Timestamp, offset)>>
      \o [i \in 1..Len(values) |-> FormatFloat(values[i])]

\* The header row main writes before the rows.
HeaderRow(a) == <<"tile_id", "date", "bounds">> \o ValueNames(a)

\* The row of a tile: its id, its date, the bounds of its first image, its values.
RowOf(t, imgs, values, offset) ==
    <<t.GeoHash, FormatDate(t.Timestamp, offset), BoundsString(imgs[1].Bounds)>>
      \o [i \in 1..Len(values) |-> FormatFloat(values[i])]

\* DoTransform without the count of the error.
DoTransformUncounted(w) ==
    /\ Running /\ w.pc = "transform"
    /\ LET r == Transform(analytic, w.images) IN
       IF r.panic
       THEN /\ exited' = "panic: nil dereference"
            /\ UNCHANGED pool
       ELSE IF r.err # NilErr
       THEN /\ pool' = Become(w, [w EXCEPT !.pc = "recv", !.lastTransformErr = r.err])
            /\ UNCHANGED exited
       ELSE /\ pool' = Become(w, [w EXCEPT !.pc = "send",
                                           !.row = RowOf(w.tile, w.images, r.values, zone)])
            /\ UNCHANGED exited
    /\ UNCHANGED <<poolInputs, mainPc, sendIdx, tiles, tilesClosed, results, resultsClosed,
                   wg, rows, received>>
    /\ UNCHANGED nonPoolVars

\* values, err := tileAnalytic.Transform(images), and the row is put together.
DoTransform(w) ==
    /\ Running /\ w.pc = "transform"
    /\ LET r == Transform(analytic, w.images) IN
       IF r.panic
       THEN /\ exited' = "panic: nil dereference"
            /\ UNCHANGED pool
       ELSE IF r.err # NilErr
       THEN /\ pool' = Become(w, [w EXCEPT !.pc = "recv",
                                           !.transformErrCount = @ + 1,
                                           !.lastTransformErr = r.err])
            /\ UNCHANGED exited
       ELSE /\ pool' = Become(w, [w EXCEPT !.pc = "send",
                                           !.row = RowOf(w.tile, w.images, r.values, zone)])
            /\ UNCHANGED exited
    /\ UNCHANGED <<poolInputs, mainPc, sendIdx, tiles, tilesClosed, results, resultsClosed,
                   wg, rows, received>>
    /\ UNCHANGED nonPoolVars

\* results <- row, blocking while the channel is full; a send on a closed
\* channel panics.
SendRow(w) ==
    /\ Running /\ w.pc = "send"
    /\ IF resultsClosed
       THEN /\ exited' = "panic: send on closed channel"
            /\ UNCHANGED <<results, pool>>
       ELSE /\ Len(results) < ChanCap
            /\ results' = Append(results, w.row)
            /\ pool' = Become(w, [w EXCEPT !.pc = "recv", !.sent = @ + 1])
            /\ UNCHANGED exited
    /\ UNCHANGED <<poolInputs, mainPc, sendIdx, tiles, tilesClosed, resultsClosed,
                   wg, rows, received>>
    /\ UNCHANGED nonPoolVars

PoolNext ==
    \/ StartWorkers
    \/ SendTile
    \/ CloseTiles
    \/ WaitAndClose
    \/ CollectRow
    \/ CollectDone
    \/ \E w \in BagToSet(pool) : RecvTile(w)
    \/ \E w \in BagToSet(pool) : WorkerDone(w)
    \/ \E w \in BagToSet(pool) : DoSetup(w)
    \/ \E w \in BagToSet(pool) : DoTransform(w)
    \/ \E w \in BagToSet(pool) : SendRow(w)

SpecPool == PoolInit /\ [][PoolNext]_vars


\* ------------------------------------------------- properties of the pool

\* The bag of the elements of a sequence.
BagOfSeq(s) == [x \in Range(s) |-> Cardinality({i \in DOMAIN s : s[i] = x})]

\* What the code does with tile t, whoever processes it: "exit" (Setup ends
\* the process), "panic", "setupErr", "transformErr" or "row".
Fate(t) ==
    LET su == Setup(analytic, dir[t]) IN
    IF su.exit THEN "exit"
    ELSE IF su.err # NilErr THEN "setupErr"
    ELSE LET tr == Transform(analytic, su.images) IN
         IF tr.panic THEN "panic"
         ELSE IF tr.err # NilErr THEN "transformErr"
         ELSE "row"

ExpectedRow(t) ==
    LET su == Setup(analytic, dir[t]) IN
    RowOf(t, su.images, Transform(analytic, su.images).values, zone)

\* The rows one worker taking the tiles in list order produces.
RECURSIVE RowsFrom(_)
RowsFrom(k) ==
    IF k > Len(tileArray) THEN <<>>
    ELSE (IF Fate(tileArray[k]) = "row" THEN <<ExpectedRow(tileArray[k])>> ELSE <<>>)
           \o RowsFrom(k + 1)

SequentialRows == RowsFrom(1)

\* Every band the operation requires of tile t decodes.
BandsLoad(t) ==
    \A i \in DOMAIN RequiredBands(analytic) :
        LET f == dir[t][RequiredBands(analytic)[i]] IN
        f.openOk /\ f.ioOk /\ f.dataType \in SupportedTypes

\* C1: a tile whose band fails to load, or whose Transform fails, is skipped
\* and nothing else: the process is not ended by it, and once processTiles
\* has returned every tile whose bands load and whose Transform succeeds has
\* its row among the rows returned.
TileFailureIsolated ==
    /\ exited # "exit"
    /\ mainPc = "returned" =>
         \A t \in TileSet :
            (BandsLoad(t) /\ Transform(analytic, Setup(analytic, dir[t]).images).err = NilErr)
               => ExpectedRow(t) \in Range(rows)

\* C2: no tile is received from the tiles channel twice, and when
\* processTiles returns each tile has been received exactly once and the rows
\* returned are, as a bag, one row for each tile whose Setup and Transform
\* both succeeded.
EachTileOnceEachRowOnce ==
    /\ \A t \in TileSet : CopiesIn(t, received) <= 1
    /\ mainPc = "returned" =>
         /\ \A t \in TileSet : CopiesIn(t, received) = 1
         /\ Len(rows) = Cardinality({t \in TileSet : Fate(t) = "row"})
         /\ \A t \in TileSet : Fate(t) = "row" =>
                Cardinality({i \in DOMAIN rows : rows[i] = ExpectedRow(t)}) = 1

\* Two workers shared the tiles of a run that returned: the rows came back
\* in the reverse of the list order.
EachTileOnceWitness ==
    /\ mainPc = "returned" /\ workers >= 2 /\ Len(rows) = 2
    /\ rows[1] = ExpectedRow(tileArray[2])
    /\ rows[2] = ExpectedRow(tileArray[1])

\* C5: the rows a run returns are, as a bag, the rows of the sequential run
\* over the same tile list, whatever the worker count; with one worker they
\* are that sequence itself.
SameRowsForAnyWorkerCount ==
    mainPc = "returned" =>
        /\ BagOfSeq(rows) = BagOfSeq(SequentialRows)
        /\ workers = 1 => rows = SequentialRows

\* A run with the default worker count (8) has returned the rows of the
\* sequential run in another order.
SameRowsWitness ==
    /\ mainPc = "returned" /\ workers = DefaultWorkers
    /\ Len(rows) >= 2 /\ rows # SequentialRows

\* C6: the results channel is closed only when every worker has left its
\* loop and called wg.Done; no row is sent on the closed channel; and
\* processTiles returns only when no worker holds a tile.
CloseOnlyAfterAllWorkersDone ==
    /\ resultsClosed => (wg = 0 /\ \A w \in BagToSet(pool) : w.pc = "done")
    /\ exited # "panic: send on closed channel"
    /\ mainPc = "returned" => \A w \in BagToSet(pool) : w.pc = "done"

\* The results channel has been closed after all of eight workers finished
\* a run that produced rows.
CloseAfterDoneWitness ==
    /\ resultsClosed /\ workers = DefaultWorkers
    /\ Len(rows) + Len(results) >= 2

\* C7: processTiles always returns: every state from which no step is
\* possible is the state in which it has returned.
ProcessTilesAlwaysReturns == mainPc = "returned" \/ ENABLED PoolNext

\* Some goroutine of a living process can take a step: the guards of PoolNext.
SomeStepPossible ==
    \/ mainPc = "start"
    \/ mainPc = "send" /\ (sendIdx = Len(tileArray) \/ Len(tiles) < ChanCap)
    \/ mainPc = "collect" /\ (results # <<>> \/ resultsClosed \/ wg = 0)
    \/ \E w \in BagToSet(pool) :
          \/ w.pc \in {"setup", "transform"}
          \/ w.pc = "recv" /\ (tiles # <<>> \/ tilesClosed)
          \/ w.pc = "send" /\ (resultsClosed \/ Len(results) < ChanCap)

\* While the process lives, the producer finds room in the tiles channel,
\* a worker about to send finds room in the results channel, and some step
\* is possible until processTiles has returned.
NoBlockWhileRunning ==
    Running =>
        /\ (mainPc = "send" /\ sendIdx < Len(tileArray)) => Len(tiles) < ChanCap
        /\ \A w \in BagToSet(pool) : w.pc = "send" => Len(results) < ChanCap
        /\ mainPc = "returned" \/ SomeStepPossible


\* The rows in being: put together by a worker and not yet sent, in the
\* results channel, or gathered by the collector.
RowsInBeing ==
    {w.row : w \in {x \in BagToSet(pool) : x.pc = "send"}} \cup Range(results) \cup Range(rows)

\* C18: every row a worker produces has 3 + len(ValueNames()) fields, as
\* many as the header row: the tile id, the date, the bounds, then the values
\* Transform returned, in its order.
RowsAsWideAsHeader ==
    \A row \in RowsInBeing :
        /\ Len(row) = 3 + Len(ValueNames(analytic))
        /\ Len(row) = Len(HeaderRow(analytic))
        /\ \E t \in TileSet :
              LET images == Setup(analytic, dir[t]).images
                  values == Transform(analytic, images).values
              IN  /\ row[1] = t.GeoHash
                  /\ row[2] = FormatDate(t.Timestamp, zone)
                  /\ row[3] = BoundsString(images[1].Bounds)
                  /\ \A i \in DOMAIN values : row[3 + i] = FormatFloat(values[i])

\* A run of a category operation of two classes returned a row: five fields.
FiveFieldRowWitness ==
    /\ mainPc = "returned" /\ Len(rows) >= 1
    /\ analytic.op \in CategoryOperations
    /\ Len(rows[1]) = 5

\* The runs of processTiles whose error accounting is followed: every tile
\* has all of its bands or lacks the red one.
AccountInit ==
    /\ PoolInit
    /\ \A t \in TileSet : dir[t] \in {CompleteFiles, NoBand4Files}

SpecAccount == AccountInit /\ [][PoolNext]_vars

\* The sum of what count gives for each worker of the pool.
RECURSIVE TotalOf(_, _)
TotalOf(ws, count) ==
    IF ws = {} THEN 0
    ELSE LET w == CHOOSE x \in ws : TRUE IN count[w] + TotalOf(ws \ {w}, count)

PoolTotal(count) == TotalOf(BagToSet(pool), [w \in BagToSet(pool) |-> pool[w] * count[w]])

WorkersOfPool == BagToSet(pool)

\* The tiles a worker has pulled that its counters and its sends account for:
\* all of them between two iterations, all but the current one within one.
Accounted(w) ==
    w.setupErrCount + w.transformErrCount + w.sent
       + (IF w.pc \in {"setup", "transform", "send"} THEN 1 ELSE 0)

\* C22: the error counters of a queue-based tileWorker are its own: they
\* count the tiles that worker pulled and nothing else, so that for every
\* worker setupErrCount + transformErrCount + rows sent equals the tiles it
\* pulled when it exits (and between any two iterations), the pulls of all
\* workers are the tiles taken from the channel and their sends the rows put on
\* results, and once every worker has exited the sum over the workers is the
\* total tile count.
ErrorCountsAccountForTiles ==
    /\ \A w \in WorkersOfPool : Accounted(w) = w.pulled
    /\ \A w \in WorkersOfPool :
          w.pc = "done" => w.setupErrCount + w.transformErrCount + w.sent = w.pulled
    /\ PoolTotal([w \in WorkersOfPool |-> w.pulled]) = BagCardinality(received)
    /\ PoolTotal([w \in WorkersOfPool |-> w.sent]) = Len(results) + Len(rows)
    /\ (pool # EmptyBag /\ \A w \in WorkersOfPool : w.pc = "done") =>
          PoolTotal([w \in WorkersOfPool |->
                        w.setupErrCount + w.transformErrCount + w.sent]) = Len(tileArray)

\* Every worker of a pool of two or more has exited, two of them pulled a
\* tile each, and one of them counted a transform error for it.
CountedErrorWitness ==
    /\ pool # EmptyBag /\ workers >= 2 /\ Len(tileArray) = 2
    /\ \A w \in WorkersOfPool : w.pc = "done"
    /\ \E w \in WorkersOfPool : w.pulled = 1 /\ w.transformErrCount = 1 /\ w.sent = 0
    /\ \A w \in WorkersOfPool : w.pulled <= 1

\* ----------------------------------------------------- loadGeoImage, alone

Scales == {-1, 0, 1}

\* The rasters loadGeoImage is called on: any sample type GDAL reports, any
\* sign of the four scale and rotation terms of the geotransform.
GeoFiles ==
    { [openOk |-> o, dataType |-> ty, ioOk |-> io, xSize |-> x, ySize |-> y,
       tx |-> <<10, s[1], s[2], 50, s[3], s[4]>>,
       pixels |-> [i \in 1..(x * y) |-> F(1)]] :
        o \in BOOLEAN, ty \in SupportedTypes \cup {"Int16"}, io \in BOOLEAN,
        x \in 1..MaxSize, y \in 1..MaxSize, s \in [1..4 -> Scales] }

GeoInit ==
    /\ geoFile \in GeoFiles
    /\ geoResult = <<>>
    /\ geoPc = "call"
    /\ CatIdle /\ PoolIdle /\ CntIdle /\ NdviIdle /\ NewIdle /\ ParseIdle /\ BatchIdle /\ RunIdle /\ BmIdle /\ InsIdle

LoadImage ==
    /\ geoPc = "call"
    /\ geoResult' = loadGeoImage(geoFile)
    /\ geoPc' = "done"
    /\ UNCHANGED geoFile
    /\ UNCHANGED nonGeoVars

GeoNext == LoadImage

SpecGeo == GeoInit /\ [][GeoNext]_vars

\* C9: the bounds of every image loadGeoImage returns have
\* MinLon <= MaxLon and MinLat <= MaxLat.
BoundsOrdered ==
    (geoPc = "done" /\ ~geoResult.img.nil) =>
        /\ geoResult.img.Bounds.MinLon <= geoResult.img.Bounds.MaxLon
        /\ geoResult.img.Bounds.MinLat <= geoResult.img.Bounds.MaxLat

\* C10: loadGeoImage returns an error for a sample type that is none of
\* Byte, UInt16, Float32, Float64, and never a nil image with a nil error.
UnsupportedTypeIsAnError ==
    geoPc = "done" =>
        /\ (geoFile.openOk /\ geoFile.dataType \notin SupportedTypes)
              => geoResult.err # NilErr
        /\ ~(geoResult.img.nil /\ geoResult.err = NilErr)

\* C25: on every return path of loadGeoImage taken after gdal.Open
\* succeeded (the band was read, the read of the band failed, the sample type
\* is not supported) the dataset has been closed exactly once.
DatasetClosedOnce ==
    (geoPc = "done" /\ geoResult.opened) => geoResult.closes = 1

\* What the code does: the dataset is closed once, by the reader of the band,
\* when the sample type is one the code reads, whether the read succeeds or
\* fails; it is left open when the sample type is not supported, and nothing
\* is closed when gdal.Open failed.
DatasetClosedByReaderOnly ==
    geoPc = "done" =>
        /\ geoResult.opened = geoFile.openOk
        /\ geoResult.closes =
              (IF geoFile.openOk /\ geoFile.dataType \in SupportedTypes THEN 1 ELSE 0)

\* ------------------------------------------------ category Transform, alone

PixelValues == {0, 1, 2, 9}

ForestWater == <<[Value |-> 2, Label |-> "forest"], [Value |-> 1, Label |-> "water"]>>

CategoryLists == {<<>>, WaterForest, ForestWater, <<[Value |-> 9, Label |-> "snow"]>>}

\* The image loadGeoImage returns for a one-row band of the given float64 data.
ImageOf(data) ==
    [nil |-> FALSE, Data |-> data, XSize |-> Len(data), YSize |-> 1,
     Bounds |-> GeoBoundsOf(Len(data), 1, GeoTx)]

CntInit ==
    /\ \E op \in CategoryOperations, cs \in CategoryLists :
          cntAnalytic = CategoryAnalytic(op, cs)
    /\ \E n \in 1..MaxPixels : \E data \in [1..n -> PixelValues] :
          cntImage = ImageOf([i \in 1..n |-> F(data[i])])
    /\ cntResult = <<>>
    /\ cntPc = "call"
    /\ CatIdle /\ PoolIdle /\ GeoIdle /\ NdviIdle /\ NewIdle /\ ParseIdle /\ BatchIdle /\ RunIdle /\ BmIdle /\ InsIdle

ApplyTransform ==
    /\ cntPc = "call"
    /\ cntResult' = Transform(cntAnalytic, <<cntImage>>)
    /\ cntPc' = "done"
    /\ UNCHANGED <<cntAnalytic, cntImage>>
    /\ UNCHANGED nonCntVars

CntNext == ApplyTransform

SpecCounts == CntInit /\ [][CntNext]_vars

\* The number of pixels of the band whose value is v.
PixelsEqual(data, v) == Cardinality({k \in DOMAIN data : data[k] = F(v)})

\* C8: CategoryCountsRaw.Transform returns, class by class in metadata
\* order, the number of pixels whose value is the class's value; so classes
\* {1: water, 2: forest} and pixels [1, 1, 2, 9] give [2, 1].
RawCountsCountMatchingPixels ==
    (cntPc = "done" /\ cntAnalytic.op = OperationCategoryCountsRaw /\ cntResult.err = NilErr) =>
        /\ Len(cntResult.values) = Len(cntAnalytic.Categories)
        /\ \A i \in DOMAIN cntResult.values :
              cntResult.values[i] = F(PixelsEqual(cntImage.Data, cntAnalytic.Categories[i].Value))

RECURSIVE SumValues(_)
SumValues(values) ==
    IF values = <<>> THEN F(0) ELSE FAdd(Head(values), SumValues(Tail(values)))

\* The category Transform of operation op was called and returned values.
Returned(op) == cntPc = "done" /\ cntAnalytic.op = op /\ cntResult.err = NilErr

\* C12: CategoryCountsPercentage.Transform returns, class by class, the
\* number of pixels whose value is the class's value divided by
\* XSize * YSize, and the values sum to at most 1.0.
PercentageIsCountOverSize ==
    Returned(OperationCategoryCountsPercentage) =>
        /\ Len(cntResult.values) = Len(cntAnalytic.Categories)
        /\ \A i \in DOMAIN cntResult.values :
              cntResult.values[i] =
                  FDiv(F(PixelsEqual(cntImage.Data, cntAnalytic.Categories[i].Value)),
                       F(cntImage.XSize * cntImage.YSize))
        /\ ~IsNaN(SumValues(cntResult.values))
        /\ ~FGt(SumValues(cntResult.values), F(1))

\* What the code does: each value is what CategoryCountsRaw.Transform counts
\* for the class divided by XSize * YSize, and the values sum to exactly 1.
PercentageIsRawTransformOverSize ==
    Returned(OperationCategoryCountsPercentage) =>
        /\ \A i \in DOMAIN cntResult.values :
              cntResult.values[i] =
                  FDiv(CategoryCountsRawTransform(cntAnalytic, <<cntImage>>).values[i],
                       F(cntImage.XSize * cntImage.YSize))
        /\ SumValues(cntResult.values) = F(1)

\* C13: CategoryBinary.Transform returns for every class exactly 0.0 or 1.0,
\* and 1.0 if and only if at least one pixel has the class's value.
BinaryIsOneIffClassPresent ==
    Returned(OperationCategoryBinary) =>
        /\ Len(cntResult.values) = Len(cntAnalytic.Categories)
        /\ \A i \in DOMAIN cntResult.values :
              /\ cntResult.values[i] \in {F(0), F(1)}
              /\ cntResult.values[i] = F(1)
                    <=> PixelsEqual(cntImage.Data, cntAnalytic.Categories[i].Value) >= 1

\* What the code does: every value is exactly 0.0 or 1.0, and 1.0 if and only
\* if CategoryCountsRaw.Transform counts at least one pixel for the class.
BinaryIsOneIffRawTransformCounts ==
    Returned(OperationCategoryBinary) =>
        \A i \in DOMAIN cntResult.values :
            /\ cntResult.values[i] \in {F(0), F(1)}
            /\ cntResult.values[i] = F(1)
                  <=> FGt(CategoryCountsRawTransform(cntAnalytic, <<cntImage>>).values[i], F(0))

\* ------------------------------------------------ CreateTileAnalytic, alone

\* The operation names of the command line: the five operations, the default
\* of the -operation flag, and a name of no operation.
OperationNames ==
    CategoryOperations \cup {OperationMeanNDVI, OperationMean, "mean_NDVI", "median"}

ClassLabels == {"water", "forest"}

ClassItems == {JNum(1), JNum(2), JStr("x")}

\* The class-name properties a document can hold.
NameProperties ==
    {Absent, Scalar}
    \cup {JArray([i \in 1..n |-> JStr(l[i])]) : n \in 0..MaxClasses, l \in [1..MaxClasses -> ClassLabels]}

\* The class-value properties a document can hold.
ValueProperties ==
    {Absent, Scalar}
    \cup {JArray([i \in 1..n |-> v[i]]) : n \in 0..MaxClasses, v \in [1..MaxClasses -> ClassItems]}

Metadatas ==
    [bandId : {"", MeanBand}, classNames : NameProperties, classValues : ValueProperties]

NewInit ==
    /\ newMetadata \in Metadatas
    /\ newOperation \in OperationNames
    /\ newResult = <<>>
    /\ newPc = "call"
    /\ CatIdle /\ PoolIdle /\ GeoIdle /\ CntIdle /\ NdviIdle /\ ParseIdle /\ BatchIdle /\ RunIdle /\ BmIdle /\ InsIdle

CreateAnalytic ==
    /\ newPc = "call"
    /\ newResult' = CreateTileAnalytic(newMetadata, newOperation)
    /\ newPc' = "done"
    /\ UNCHANGED <<newMetadata, newOperation>>
    /\ UNCHANGED nonNewVars

NewNext == CreateAnalytic

SpecCreate == NewInit /\ [][NewNext]_vars

\* Construction of the operation named fails: a Mean without a band id, a
\* category operation without one of its two arrays.
ConstructionFails ==
    \/ newOperation = OperationMean /\ NewMean(newMetadata).err # NilErr
    \/ newOperation \in CategoryOperations
          /\ NewCategoryCounts(newOperation, newMetadata).err # NilErr

\* C15: CreateTileAnalytic selects by exact name. Each of the five names
\* yields the operation of that name when its construction returns one; every
\* other name yields MeanNDVI with a nil error; an error is returned only
\* when construction of a Mean or category operation fails, and it is that
\* operation's error.
SelectsByExactName ==
    newPc = "done" =>
        /\ (newResult.err = NilErr /\ ~newResult.panic) =>
              newResult.analytic.op =
                  (IF newOperation \in CategoryOperations \cup {OperationMeanNDVI, OperationMean}
                   THEN newOperation ELSE OperationMeanNDVI)
        /\ newOperation \notin (CategoryOperations \cup {OperationMean}) =>
              (newResult.err = NilErr /\ ~newResult.panic
                 /\ newResult.analytic = [op |-> OperationMeanNDVI])
        /\ newResult.err # NilErr <=> ConstructionFails
        /\ newResult.panic => newOperation \in CategoryOperations

\* The default of the -operation flag, which is the name of no operation,
\* was given, and MeanNDVI came back without an error.
UnknownNameFallsBack ==
    /\ newPc = "done" /\ newOperation = "mean_NDVI"
    /\ newResult.analytic = [op |-> OperationMeanNDVI] /\ newResult.err = NilErr

\* One of the two class arrays is absent or malformed: it is no array, a
\* class value is no number, or the two arrays differ in length.
ClassArraysMalformed ==
    \/ newMetadata.classNames.kind # "array"
    \/ newMetadata.classValues.kind # "array"
    \/ Len(newMetadata.classNames.items) # Len(newMetadata.classValues.items)
    \/ \E i \in DOMAIN newMetadata.classValues.items :
           newMetadata.classValues.items[i].t # "number"

\* C19: constructing a category operation returns an error, and neither
\* succeeds nor panics, whenever a class array is absent or malformed or the
\* two differ in length; on success the column names are the class labels
\* in metadata order.
MalformedClassesAreAnError ==
    (newPc = "done" /\ newOperation \in CategoryOperations) =>
        /\ ClassArraysMalformed => (newResult.err # NilErr /\ ~newResult.panic)
        /\ (newResult.err = NilErr /\ ~newResult.panic) =>
              ValueNames(newResult.analytic)
                 = [i \in DOMAIN newMetadata.classNames.items |->
                       newMetadata.classNames.items[i].s]

\* What the code does: a property that is absent or no array is an error,
\* and two arrays of numbers and labels of one length give the labels in
\* order as column names.
MissingArrayIsAnError ==
    (newPc = "done" /\ newOperation \in CategoryOperations) =>
        /\ (newMetadata.classNames.kind # "array" \/ newMetadata.classValues.kind # "array")
              => (newResult.err # NilErr /\ ~newResult.panic)
        /\ ~ClassArraysMalformed =>
              /\ newResult.err = NilErr /\ ~newResult.panic
              /\ ValueNames(newResult.analytic)
                    = [i \in DOMAIN newMetadata.classNames.items |->
                          newMetadata.classNames.items[i].s]

\* The pixels of the band whose value is the value of no class.
UnknownPixels ==
    {k \in DOMAIN cntImage.Data :
        \A i \in DOMAIN cntAnalytic.Categories :
            cntImage.Data[k] # F(cntAnalytic.Categories[i].Value)}

BatchInit ==
    /\ batchTiles \in 0..MaxBatchTiles
    /\ batchWorkers \in 1..DefaultWorkers
    /\ batchSize = 0
    /\ batchIdx = 0
    /\ tileBatches = <<>>
    /\ batchPc = "start"
    /\ CatIdle /\ PoolIdle /\ GeoIdle /\ CntIdle /\ NdviIdle /\ NewIdle /\ ParseIdle /\ RunIdle /\ BmIdle /\ InsIdle

\* batchSize := len(tileArray) / workers
ComputeBatchSize ==
    /\ batchPc = "start"
    /\ batchSize' = batchTiles \div batchWorkers
    /\ batchPc' = "send"
    /\ UNCHANGED <<batchTiles, batchWorkers, batchIdx, tileBatches>>
    /\ UNCHANGED nonBatchVars

\* One iteration of the loop that passes a batch to each processor:
\* tileBatches <- tileArray[start:end]. The channel has room for one batch a
\* worker, so the send does not block. len(tileArray) % batchSize with
\* batchSize = 0 is an integer division by zero; a slice with end beyond the
\* array or start beyond end is out of range.
SendBatch ==
    /\ batchPc = "send" /\ batchIdx < batchWorkers
    /\ LET start == batchIdx * batchSize
           end0  == (batchIdx + 1) * batchSize
           last  == batchIdx = batchWorkers - 1
       IN  IF last /\ batchSize = 0
           THEN /\ batchPc' = "panic: integer divide by zero"
                /\ UNCHANGED <<batchIdx, tileBatches>>
           ELSE LET end == IF last THEN end0 + (batchTiles % batchSize) ELSE end0 IN
                IF end > batchTiles \/ start > end
                THEN /\ batchPc' = "panic: slice bounds out of range"
                     /\ UNCHANGED <<batchIdx, tileBatches>>
                ELSE /\ tileBatches' = Append(tileBatches, <<start, end>>)
                     /\ batchIdx' = batchIdx + 1
                     /\ UNCHANGED batchPc
    /\ UNCHANGED <<batchTiles, batchWorkers, batchSize>>
    /\ UNCHANGED nonBatchVars

\* close(tileBatches)
CloseBatches ==
    /\ batchPc = "send" /\ batchIdx = batchWorkers
    /\ batchPc' = "closed"
    /\ UNCHANGED <<batchTiles, batchWorkers, batchSize, batchIdx, tileBatches>>
    /\ UNCHANGED nonBatchVars

BatchNext == ComputeBatchSize \/ SendBatch \/ CloseBatches

SpecBatch == BatchInit /\ [][BatchNext]_vars

\* The batches that hold index k of the tile array.
BatchesHolding(k) ==
    {b \in DOMAIN tileBatches : tileBatches[b][1] <= k /\ k < tileBatches[b][2]}

\* C20: for every tile count N >= 0 and worker count W >= 1 the bounds of
\* the batches are computed without a division by zero or a slice out of
\* range, and the W batches sent partition the tile array: every index
\* 0..N-1 lies in exactly one batch.
BatchesPartitionTiles ==
    /\ batchPc \notin {"panic: integer divide by zero", "panic: slice bounds out of range"}
    /\ batchPc = "closed" =>
          /\ Len(tileBatches) = batchWorkers
          /\ \A k \in 0..(batchTiles - 1) : Cardinality(BatchesHolding(k)) = 1

\* What the code does: it divides by zero exactly when there are fewer tiles
\* than workers, never slices out of range, never sends an index twice, and
\* sends every index exactly when len % batchSize = len - workers * batchSize.
BatchesAsComputed ==
    /\ batchPc # "panic: slice bounds out of range"
    /\ batchPc = "panic: integer divide by zero" => batchTiles < batchWorkers
    /\ batchPc = "closed" => batchTiles >= batchWorkers
    /\ \A k \in 0..(batchTiles - 1) : Cardinality(BatchesHolding(k)) <= 1
    /\ batchPc = "closed" =>
          ((\A k \in 0..(batchTiles - 1) : Cardinality(BatchesHolding(k)) = 1)
             <=> batchTiles % batchSize = batchTiles - batchWorkers * batchSize)

\* ------------------------------------------------------ main, end to end

BandB02 == <<"B", "0", "2", ".", "t", "i", "f">>

BandLandCover ==
    <<"d", "i", "s", "c", "r", "e", "t", "e", "_", "c", "l", "a", "s", "s", "i", "f", "i",
      "c", "a", "t", "i", "o", "n", ".", "t", "i", "f">>

\* fmt.Sprintf("%s_%s_%s.tif", tile.GeoHash, tile.Date, band): the last part.
BandFile(b) ==
    CASE b = band8 -> BandB08
      [] b = band4 -> BandB04
      [] b = discreteLandCoverBand -> BandLandCover
      [] OTHER -> BandB02

\* The files of every band of one tile, in the order ioutil.ReadDir lists them.
AllBands(id, token) ==
    <<FileName(id, token, BandB02), FileName(id, token, BandB04),
      FileName(id, token, BandB08), FileName(id, token, BandLandCover)>>

NewYearToken == DateToken(2020, 1, 1, 0, 0, 0)

\* The directory of the end-to-end scenario.
ScenarioListing ==
    <<FileName(LocA, NewYearToken, BandB04), FileName(LocA, NewYearToken, BandB08),
      metadataFileName>>

\* The directories main is run on, each as ioutil.ReadDir lists it, sorted by
\* name.
RunListings ==
    { ScenarioListing,
      <<FileName(LocA, NewYearToken, BandB04), FileName(LocA, NewYearToken, BandB08)>>,
      <<FileName(LocA, NewYearToken, BandB08), metadataFileName>>,
      AllBands(LocA, DateToken(2019, 12, 31, 12, 0, 0)) \o AllBands(LocA, NewYearToken)
         \o <<metadataFileName>>,
      AllBands(LocA, NewYearToken) \o AllBands(LocB, NewYearToken) \o <<metadataFileName>>,
      <<metadataFileName>>,
      <<>> }

\* A document with a band id and two classes, and one with none of them.
GoodMetadata ==
    [bandId |-> MeanBand,
     classNames |-> JArray(<<JStr("water"), JStr("forest")>>),
     classValues |-> JArray(<<JNum(1), JNum(2)>>)]

BareMetadata == [bandId |-> "", classNames |-> Absent, classValues |-> Absent]

\* The local time zone of the process, in seconds east of UTC: New York in
\* winter, UTC, Berlin in winter.
LocalZones == {-18000, 0, 3600}

RunInit ==
    /\ filePaths \in RunListings
    /\ readDirOk \in BOOLEAN
    /\ catPc = "idle" /\ fileIdx = 0 /\ tileMap = EmptyMap /\ parsedTiles = {}
    /\ lastOutcome = "none"
    /\ runMetadata \in {GoodMetadata, BareMetadata}
    /\ runOperation \in OperationNames
    /\ runPc = "main"
    /\ output = <<>>
    /\ analytic = [op |-> OperationMeanNDVI] /\ tileArray = <<>> /\ dir = <<>>
    /\ zone \in LocalZones
    /\ workers = DefaultWorkers
    /\ mainPc = "idle" /\ sendIdx = 0
    /\ tiles = <<>> /\ tilesClosed = FALSE /\ results = <<>> /\ resultsClosed = FALSE
    /\ wg = 0 /\ pool = EmptyBag /\ rows = <<>> /\ exited = "no" /\ received = EmptyBag
    /\ GeoIdle /\ CntIdle /\ NdviIdle /\ NewIdle /\ ParseIdle /\ BatchIdle /\ BmIdle /\ InsIdle

\* main up to the call of processTiles: loadMetadata, CreateTileAnalytic, the
\* header row. A metadata file that cannot be read and an operation that
\* cannot be constructed end the process.
MainCreate ==
    /\ runPc = "main" /\ Running
    /\ IF metadataFileName \notin Range(filePaths)
       THEN /\ exited' = "exit"
            /\ UNCHANGED <<analytic, output, runPc, catPc>>
       ELSE LET r == CreateTileAnalytic(runMetadata, runOperation) IN
            IF r.panic
            THEN /\ exited' = "panic: index out of range"
                 /\ UNCHANGED <<analytic, output, runPc, catPc>>
            ELSE IF r.err # NilErr
            THEN /\ exited' = "exit"
                 /\ UNCHANGED <<analytic, output, runPc, catPc>>
            ELSE /\ analytic' = r.analytic
                 /\ output' = <<HeaderRow(r.analytic)>>
                 /\ runPc' = "tiles"
                 /\ catPc' = "start"
                 /\ UNCHANGED exited
    /\ UNCHANGED <<filePaths, readDirOk, fileIdx, tileMap, parsedTiles, lastOutcome>>
    /\ UNCHANGED <<tileArray, dir, zone, workers, mainPc, sendIdx, tiles, tilesClosed,
                   results, resultsClosed, wg, pool, rows, received>>
    /\ UNCHANGED <<runMetadata, runOperation>>
    /\ UNCHANGED <<geoVars, cntVars, ndviVars, newVars, parseVars, batchVars, bmVars, insVars>>

\* processTiles: createTileMap returned an error, os.Exit(1).
TileMapFailed ==
    /\ runPc = "tiles" /\ Running /\ catPc = "error"
    /\ exited' = "exit"
    /\ UNCHANGED <<poolInputs, mainPc, sendIdx, tiles, tilesClosed, results, resultsClosed,
                   wg, pool, rows, received>>
    /\ UNCHANGED nonPoolVars

\* The orders a range over a map of these keys can take.
KeyOrders(keys) ==
    {o \in [1..Cardinality(keys) -> keys] : \A i, j \in DOMAIN o : i # j => o[i] # o[j]}

RECURSIVE Flatten(_, _)
Flatten(m, order) ==
    IF order = <<>> THEN <<>> ELSE m[Head(order)] \o Flatten(m, Tail(order))

\* The band files Setup finds for a tile in the directory.
DirOf(t) ==
    [b \in BandNames |->
        IF FileName(t.GeoHash, t.Date, BandFile(b)) \in Range(filePaths)
        THEN CompleteFiles[b] ELSE MissingFile]

\* processTiles: the tile map is flattened to an array, in the order the range
\* over the map takes, and the channels are made.
FlattenTileMap ==
    /\ runPc = "tiles" /\ Running /\ catPc = "done" /\ mainPc = "idle"
    /\ \E order \in KeyOrders(DOMAIN tileMap) :
          /\ tileArray' = Flatten(tileMap, order)
          /\ dir' = [t \in Range(Flatten(tileMap, order)) |-> DirOf(t)]
    /\ mainPc' = "start"
    /\ UNCHANGED <<analytic, zone, workers, sendIdx, tiles, tilesClosed, results,
                   resultsClosed, wg, pool, rows, exited, received>>
    /\ UNCHANGED nonPoolVars

\* main: the rows processTiles returned are written after the header.
WriteRows ==
    /\ runPc = "tiles" /\ Running /\ mainPc = "returned"
    /\ output' = output \o rows
    /\ runPc' = "written"
    /\ UNCHANGED <<runMetadata, runOperation>>
    /\ UNCHANGED nonRunVars

RunNext == MainCreate \/ CatNext \/ TileMapFailed \/ FlattenTileMap \/ PoolNext \/ WriteRows

SpecRun == RunInit /\ [][RunNext]_vars

\* The end-to-end scenario: the directory holds the B08 and B04 files of tile
\* A1 of 20200101T000000 and the metadata file and can be read, and the
\* operation is mean_ndvi.
Scenario ==
    filePaths = ScenarioListing /\ readDirOk /\ runOperation = OperationMeanNDVI

NewYearsDay == <<"2", "0", "2", "0", "-", "0", "1", "-", "0", "1">>

\* C14: the scenario yields exactly one output row, of tile A1, with the
\* date field 2020-01-01 and exactly one numeric column.
ScenarioYieldsOneRow ==
    Scenario =>
        /\ exited = "no"
        /\ runPc = "written" =>
              /\ Len(output) = 2
              /\ output[2][1] = LocA
              /\ output[2][2] = NewYearsDay
              /\ Len(output[2]) = 3 + 1

\* What the code does: the one row of tile A1 with one numeric column is
\* written, and its date field is the local date of 2020-01-01T00:00:00Z,
\* which is 2020-01-01 where the local zone is UTC or east of it.
ScenarioRowInLocalZone ==
    Scenario =>
        /\ exited = "no"
        /\ runPc = "written" =>
              /\ Len(output) = 2
              /\ output[2][1] = LocA
              /\ Len(output[2]) = 3 + 1
              /\ output[2][2] = FormatDate(ParseDate(NewYearToken).unix, zone)
              /\ zone >= 0 => output[2][2] = NewYearsDay

\* ------------------------------------------------ MeanNDVI.Transform, alone

\* The float64 samples of the two bands: whole numbers, as a Byte or UInt16
\* band holds, and fractions, as a Float32 or Float64 band holds.
SampleValues == {F(0), F(2), F(8), <<1, 2>>, <<1, 4>>}

BandData == UNION {[1..n -> SampleValues] : n \in 1..MaxBandLen}

NdviInit ==
    /\ \E nir \in BandData, red \in BandData : ndviImages = <<ImageOf(nir), ImageOf(red)>>
    /\ ndviResult = <<>>
    /\ ndviPc = "call"
    /\ CatIdle /\ PoolIdle /\ GeoIdle /\ CntIdle /\ NewIdle /\ ParseIdle /\ BatchIdle /\ RunIdle /\ BmIdle /\ InsIdle

ApplyMeanNDVI ==
    /\ ndviPc = "call"
    /\ ndviResult' = Transform([op |-> OperationMeanNDVI], ndviImages)
    /\ ndviPc' = "done"
    /\ UNCHANGED ndviImages
    /\ UNCHANGED nonNdviVars

NdviNext == ApplyMeanNDVI

SpecNDVI == NdviInit /\ [][NdviNext]_vars

\* a - b
FSub(a, b) == FAdd(a, <<-b[1], b[2]>>)

\* The index of one pixel pair: max(0, (nir - red) / (nir + red)), and 0 when
\* both are 0.
ClampedRatio(nir, red) ==
    IF nir = F(0) /\ red = F(0) THEN F(0)
    ELSE FMax(F(0), FDiv(FSub(nir, red), FAdd(nir, red)))

RECURSIVE SumOfRatios(_, _, _)
SumOfRatios(nir, red, i) ==
    IF i > Len(nir) THEN F(0)
    ELSE FAdd(ClampedRatio(nir[i], red[i]), SumOfRatios(nir, red, i + 1))

\* The two bands have the same length n >= 1.
EqualLengthBands ==
    /\ Len(ndviImages[1].Data) >= 1
    /\ Len(ndviImages[1].Data) = Len(ndviImages[2].Data)

\* C11: on two bands of equal length n >= 1, MeanNDVI.Transform returns one
\* value, the arithmetic mean over the pixel indices of
\* max(0, (nir - red) / (nir + red)), a pixel with nir = red = 0 counting 0.
MeanNDVIIsMeanOfClampedRatios ==
    (ndviPc = "done" /\ EqualLengthBands) =>
        /\ ~ndviResult.panic /\ ndviResult.err = NilErr
        /\ ndviResult.values =
              <<FDiv(SumOfRatios(ndviImages[1].Data, ndviImages[2].Data, 1),
                     F(Len(ndviImages[1].Data)))>>

\* Every sample of both bands is a whole number.
WholeSamples ==
    \A b \in 1..2 : \A i \in DOMAIN ndviImages[b].Data : ndviImages[b].Data[i][2] = 1

\* What the code does: on bands of whole-number samples the mean is as
\* stated, so nir = [8, 0], red = [2, 0] gives 0.3.
MeanNDVIOnWholeSamples ==
    (ndviPc = "done" /\ EqualLengthBands /\ WholeSamples) =>
        /\ ndviResult.values =
              <<FDiv(SumOfRatios(ndviImages[1].Data, ndviImages[2].Data, 1),
                     F(Len(ndviImages[1].Data)))>>
        /\ (ndviImages[1].Data = <<F(8), F(0)>> /\ ndviImages[2].Data = <<F(2), F(0)>>)
              => ndviResult.values = <<<<3, 10>>>>

\* ------------------------------- the batch workers of src/main.go

\* The band files of the tiles: every tile has all of its bands, or one tile
\* has files that do not load.
BmDirs(arr) ==
    LET ts == {arr[k] : k \in DOMAIN arr} IN
    {[t \in ts |-> CompleteFiles]}
      \cup {[t \in ts |-> IF t = bad THEN fs ELSE CompleteFiles] :
               bad \in ts, fs \in TileFiles \ {CompleteFiles}}

\* A catalog of n tiles as main flattens it: the tiles of one location on
\* one day, an hour apart.
HourlyTiles(n) ==
    [k \in 1..n |->
        LET dateString == DateToken(2020, 1, 1, k - 1, 0, 0) IN
        [GeoHash |-> LocA, Date |-> dateString, Timestamp |-> ParseDate(dateString).unix]]

BmInit ==
    /\ bmAnalytic \in Analytics
    /\ \E n \in 0..MaxBatchTiles : bmArray = HourlyTiles(n)
    /\ bmDir \in BmDirs(bmArray)
    /\ bmZone \in Zones
    /\ bmSize = 0 /\ bmIdx = 0 /\ bmBatches = <<>> /\ bmClosed = FALSE
    /\ bmPool = EmptyBag /\ bmRows = <<>> /\ bmOutput = <<>>
    /\ bmPc = "start"
    /\ CatIdle /\ PoolIdle /\ GeoIdle /\ CntIdle /\ NdviIdle /\ NewIdle /\ ParseIdle
    /\ BatchIdle /\ RunIdle /\ InsIdle

\* main is alive.
BmRunning == bmPc \in {"start", "spawn", "send", "collect", "write", "done"}

bmInputs == <<bmAnalytic, bmArray, bmDir, bmZone>>

\* batchSize := len(tileArray) / workers, with workers the default of the
\* flag, read before flag.Parse().
BmBatchSize ==
    /\ bmPc = "start"
    /\ bmSize' = Len(bmArray) \div DefaultWorkers
    /\ bmPc' = "spawn"
    /\ UNCHANGED <<bmInputs, bmIdx, bmBatches, bmClosed, bmPool, bmRows, bmOutput>>
    /\ UNCHANGED nonBmVars

\* The local state of a batch tileWorker: where it is and the rows of the
\* batch it holds.
BmWorker == [pc |-> "recv", rows |-> <<>>]

\* for i := 0; i < workers; i++ { go tileWorker(...) }
BmStartWorkers ==
    /\ bmPc = "spawn"
    /\ bmPool' = [w \in {BmWorker} |-> DefaultWorkers]
    /\ bmPc' = "send"
    /\ UNCHANGED <<bmInputs, bmSize, bmIdx, bmBatches, bmClosed, bmRows, bmOutput>>
    /\ UNCHANGED nonBmVars

\* One iteration of the loop that passes a batch to each processor. The
\* channel has room for one batch a worker, so the send does not block.
BmSendBatch ==
    /\ bmPc = "send" /\ bmIdx < DefaultWorkers
    /\ LET start == bmIdx * bmSize
           end0  == (bmIdx + 1) * bmSize
           last  == bmIdx = DefaultWorkers - 1
       IN  IF last /\ bmSize = 0
           THEN /\ bmPc' = "panic: integer divide by zero"
                /\ UNCHANGED <<bmIdx, bmBatches>>
           ELSE LET end == IF last THEN end0 + (Len(bmArray) % bmSize) ELSE end0 IN
                /\ bmBatches' = Append(bmBatches, SubSeq(bmArray, start + 1, end))
                /\ bmIdx' = bmIdx + 1
                /\ UNCHANGED bmPc
    /\ UNCHANGED <<bmInputs, bmSize, bmClosed, bmPool, bmRows, bmOutput>>
    /\ UNCHANGED nonBmVars

\* close(tileBatches); main goes on to collect the results.
BmCloseBatches ==
    /\ bmPc = "send" /\ bmIdx = DefaultWorkers
    /\ bmClosed' = TRUE
    /\ bmIdx' = 0
    /\ bmPc' = "collect"
    /\ UNCHANGED <<bmInputs, bmSize, bmBatches, bmPool, bmRows, bmOutput>>
    /\ UNCHANGED nonBmVars

\* One iteration of the loop over the tiles of a batch: [row, end]. A tile
\* whose Setup or Transform returns an error is passed over with continue,
\* which leaves rows[i] as make() created it, nil; Setup ends the process when
\* a band does not load.
BmTileRow(t) ==
    LET s == Setup(bmAnalytic, bmDir[t]) IN
    IF s.exit THEN [row |-> <<>>, end |-> "exit"]
    ELSE IF s.err # NilErr THEN [row |-> <<>>, end |-> "no"]
    ELSE LET r == Transform(bmAnalytic, s.images) IN
         IF r.panic THEN [row |-> <<>>, end |-> "panic: nil dereference"]
         ELSE IF r.err # NilErr THEN [row |-> <<>>, end |-> "no"]
         ELSE [row |-> RowOf(t, s.images, r.values, bmZone), end |-> "no"]

\* The loop over the tiles of a batch: rows has one entry a tile.
RECURSIVE BmBatchRows(_)
BmBatchRows(batch) ==
    IF batch = <<>> THEN [rows |-> <<>>, end |-> "no"]
    ELSE LET r == BmTileRow(Head(batch)) IN
         IF r.end # "no" THEN [rows |-> <<>>, end |-> r.end]
         ELSE LET rest == BmBatchRows(Tail(batch)) IN
              [rest EXCEPT !.rows = <<r.row>> \o @]

BmBecome(w, w2) == (bmPool (-) SetToBag({w})) (+) SetToBag({w2})

\* tileWorker: for tiles := range tileBatches, and the loop over the batch
\* received.
BmProcessBatch(w) ==
    /\ BmRunning /\ w.pc = "recv" /\ bmBatches # <<>>
    /\ LET r == BmBatchRows(Head(bmBatches)) IN
       IF r.end # "no"
       THEN /\ bmPc' = r.end
            /\ UNCHANGED <<bmBatches, bmPool>>
       ELSE /\ bmBatches' = Tail(bmBatches)
            /\ bmPool' = BmBecome(w, [pc |-> "send", rows |-> r.rows])
            /\ UNCHANGED bmPc
    /\ UNCHANGED <<bmInputs, bmSize, bmIdx, bmClosed, bmRows, bmOutput>>
    /\ UNCHANGED nonBmVars

\* tileWorker: the range over tileBatches ends when the channel is closed and
\* empty.
BmWorkerDone(w) ==
    /\ BmRunning /\ w.pc = "recv" /\ bmBatches = <<>> /\ bmClosed
    /\ bmPool' = BmBecome(w, [pc |-> "done", rows |-> <<>>])
    /\ UNCHANGED <<bmInputs, bmSize, bmIdx, bmBatches, bmClosed, bmRows, bmOutput, bmPc>>
    /\ UNCHANGED nonBmVars

\* results <- rows in a worker meets r := <-results in main: the channel has
\* no buffer. main appends the rows of the batch to its own.
BmCollect(w) ==
    /\ bmPc = "collect" /\ bmIdx < DefaultWorkers /\ w.pc = "send"
    /\ bmRows' = bmRows \o w.rows
    /\ bmIdx' = bmIdx + 1
    /\ bmPool' = BmBecome(w, BmWorker)
    /\ UNCHANGED <<bmInputs, bmSize, bmBatches, bmClosed, bmOutput, bmPc>>
    /\ UNCHANGED nonBmVars

\* close(results)
BmCloseResults ==
    /\ bmPc = "collect" /\ bmIdx = DefaultWorkers
    /\ bmPc' = "write"
    /\ UNCHANGED <<bmInputs, bmSize, bmIdx, bmBatches, bmClosed, bmPool, bmRows, bmOutput>>
    /\ UNCHANGED nonBmVars

\* for _, row := range rows { csvWriter.Write(row) }: a nil row is written as
\* a record without fields, an empty line.
BmWriteRows ==
    /\ bmPc = "write"
    /\ bmOutput' = bmRows
    /\ bmPc' = "done"
    /\ UNCHANGED <<bmInputs, bmSize, bmIdx, bmBatches, bmClosed, bmPool, bmRows>>
    /\ UNCHANGED nonBmVars

BmNext ==
    \/ BmBatchSize
    \/ BmStartWorkers
    \/ BmSendBatch
    \/ BmCloseBatches
    \/ \E w \in BagToSet(bmPool) : BmProcessBatch(w)
    \/ \E w \in BagToSet(bmPool) : BmWorkerDone(w)
    \/ \E w \in BagToSet(bmPool) : BmCollect(w)
    \/ BmCloseResults
    \/ BmWriteRows

SpecBatchMain == BmInit /\ [][BmNext]_vars

\* Tile t is processed without an error: Setup loads its bands and Transform
\* returns its values.
BmSucceeds(t) ==
    LET s == Setup(bmAnalytic, bmDir[t]) IN
    /\ ~s.exit /\ s.err = NilErr
    /\ LET r == Transform(bmAnalytic, s.images) IN ~r.panic /\ r.err = NilErr

\* C21: a tile whose Setup or Transform returns an error contributes no row
\* to the output of the batch-based main: every row written to the CSV file
\* is the fully populated row of a tile that was processed without an error.
FailedTileContributesNoRow ==
    \A i \in DOMAIN bmOutput :
        \E k \in DOMAIN bmArray :
            /\ BmSucceeds(bmArray[k])
            /\ bmOutput[i] = BmTileRow(bmArray[k]).row
            /\ Len(bmOutput[i]) = Len(HeaderRow(bmAnalytic))

\* What the code does: the rows written are those of the tiles of the
\* batches, one a tile and in the order of the array, and the row of a tile
\* whose Transform returned an error is a record without fields.
FailedTileLeavesEmptyRow ==
    bmPc = "done" =>
        /\ Len(bmOutput) <= Len(bmArray)
        /\ \A i \in DOMAIN bmOutput :
              \E k \in DOMAIN bmArray :
                  /\ bmOutput[i] = BmTileRow(bmArray[k]).row
                  /\ (bmOutput[i] = <<>>) <=> ~BmSucceeds(bmArray[k])

\* ------------------------------------------------ insertSorted on its own

\* The tiles of one location the scan can make: of three hours of one day,
\* each from a date token with or without a fraction of a second, which
\* time.Parse accepts and date.Unix() drops.
InsertTiles ==
    {[GeoHash |-> LocA, Date |-> token \o frac,
      Timestamp |-> ParseDate(token \o frac).unix] :
        token \in {DateToken(2020, 1, 1, h, 0, 0) : h \in 0..2},
        frac \in {<<>>, <<".", "5">>}}

\* tiles is sorted by timestamp and holds no tile twice, as createTileMap
\* keeps every sequence of its map.
SortedTiles ==
    {s \in UNION {[1..n -> InsertTiles] : n \in 0..MaxFiles} :
        /\ \A i, j \in DOMAIN s : i < j => s[i].Timestamp <= s[j].Timestamp
        /\ \A i, j \in DOMAIN s : i # j => s[i] # s[j]}

InsInit ==
    /\ insTiles \in SortedTiles
    /\ insTile \in InsertTiles \ Range(insTiles)
    /\ insResult = <<>>
    /\ insPc = "call"
    /\ CatIdle /\ PoolIdle /\ GeoIdle /\ CntIdle /\ NdviIdle /\ NewIdle /\ ParseIdle
    /\ BatchIdle /\ RunIdle /\ BmIdle

\* tileMap[id] = insertSorted(tileMap[id], tileInfo)
CallInsertSorted ==
    /\ insPc = "call"
    /\ insResult' = insertSorted(insTiles, insTile)
    /\ insPc' = "done"
    /\ UNCHANGED <<insTiles, insTile>>
    /\ UNCHANGED nonInsVars

InsNext == CallInsertSorted

SpecInsert == InsInit /\ [][InsNext]_vars

\* s without its element at position p.
Without(s, p) == SubSeq(s, 1, p - 1) \o SubSeq(s, p + 1, Len(s))

\* C23: insertSorted is a stable order-preserving insert: the result has one
\* element more, the new tile stands after every tile whose timestamp is less
\* than or equal to its own and before every tile of a greater timestamp, and
\* the tiles already there keep their relative order.
InsertSortedIsStable ==
    insPc = "done" =>
        /\ Len(insResult) = Len(insTiles) + 1
        /\ \E p \in DOMAIN insResult :
              /\ insResult[p] = insTile
              /\ Without(insResult, p) = insTiles
              /\ \A i \in DOMAIN insResult :
                    /\ i < p => insResult[i].Timestamp <= insTile.Timestamp
                    /\ i > p => insResult[i].Timestamp > insTile.Timestamp

\* The tile was inserted right after a tile of its own timestamp and before a
\* later one.
InsertedAfterEqualTile ==
    /\ insPc = "done"
    /\ \E p \in 2..(Len(insResult) - 1) :
          /\ insResult[p] = insTile
          /\ insResult[p - 1].Timestamp = insTile.Timestamp
          /\ insResult[p + 1].Timestamp > insTile.Timestamp

====
